---------------------------- MODULE Spec2Model ----------------------------
(***************************************************************************)
(* ferroflow: a tensor engine generic over two compute backends (CPU and  *)
(* Metal).  The model keeps the live tensors of a program (two bindings,  *)
(* the operands a call can take), the backend the program was built for,  *)
(* and the record of the last call with the value it returned.            *)
(*                                                                         *)
(* f32 elements are modelled by integers: every value the model reaches   *)
(* is a small integer, which f32 represents exactly.                      *)
(***************************************************************************)
EXTENDS Integers, Sequences, FiniteSets, TLC

VARIABLES
    backend,    \* "CPU" | "Metal": the type parameter B of Tensor<B>
    tensors,    \* binding name -> live tensor [shape, buffer]
    last,       \* the last call: its inputs, its outcome, the value returned
    chain,      \* the TensorChain the caller holds, NoChain when it holds none
    heap,       \* the allocated buffers by identity: [next, bufs: id -> contents]
    ctxs,       \* context name -> the Arc<B::Context> allocation
    objs,       \* binding name -> live tensor [shape, buffer id, ctx name]
    threads,    \* thread -> the tensor operation it is executing
    gpu         \* the Metal device: its buffers, its command queue, each thread's call

chainVars == <<chain>>
memVars == <<heap, ctxs, objs, threads>>
gpuVars == <<gpu>>
vars == <<backend, tensors, last, chainVars, memVars, gpuVars>>

---------------------------------------------------------------------------
(* Bounds of the model *)

\* shapes constructed by the caller have dims >= 1 that sum to at most this
MaxDimSum == 4
\* a TensorChain takes at most this many steps before finish()
MaxChainSteps == 2
\* buffers allocated in a run of the memory model, its two first tensors included
MaxBuffers == 4
\* backend calls a thread makes on the Metal device
MaxGpuCalls == 2

---------------------------------------------------------------------------
(* Program constants *)

\* std::mem::size_of::<f32>()
SizeOfF32 == 4
\* const TILE_SIZE: u32 = 16
TILE_SIZE == 16

Backends == {"CPU", "Metal"}
\* the bindings of the caller (let a = ...; let b = ...), filled in this order
Slots == <<"a", "b">>
SlotNames == {Slots[i] : i \in 1..Len(Slots)}
\* the f32 scalars passed to scalar_multiply
Scalars == {0, 2}

---------------------------------------------------------------------------
(* Inputs *)

RECURSIVE ShapesOfSum(_)
ShapesOfSum(w) ==
    {<<>>} \cup UNION {{<<d>> \o s : s \in ShapesOfSum(w - d)} : d \in 1..w}

\* every dims vector with dims >= 1 summing to at most MaxDimSum (ranks 0..MaxDimSum)
Shapes == ShapesOfSum(MaxDimSum)

\* the slice [start, start+1, ...] of len elements
Ramp(len, start) == [i \in 1..len |-> start + i - 1]

\* the data slices a caller hands to Tensor::new for a shape of n elements:
\* one element short, exact, one element over
LenDiffs == {-1, 0, 1}
DataFor(n) == {Ramp(n + d, 1) : d \in {x \in LenDiffs : n + x >= 0}}

---------------------------------------------------------------------------
(* Shape *)

RECURSIVE Product(_)
Product(dims) ==
    IF dims = <<>> THEN 1 ELSE Head(dims) * Product(Tail(dims))

\* Shape::size
ShapeSize(shape) == Product(shape)

\* Shape::batch_size: Some(dims[0]) iff rank >= 3
BatchSize(shape) ==
    IF Len(shape) >= 3
    THEN [some |-> TRUE, b |-> shape[1]]
    ELSE [some |-> FALSE, b |-> 0]

\* Shape::matrix_dims: (rows, cols) of a rank 2 or 3 shape; any other rank panics
MatrixDims(shape) ==
    CASE Len(shape) = 2 -> [panic |-> FALSE, rows |-> shape[1], cols |-> shape[2]]
      [] Len(shape) = 3 -> [panic |-> FALSE, rows |-> shape[2], cols |-> shape[3]]
      [] OTHER          -> [panic |-> TRUE, rows |-> 0, cols |-> 0]

\* Shape::new_batched
NewBatched(batch, rows, cols) == <<batch, rows, cols>>

---------------------------------------------------------------------------
(* Results.  A backend call returns [status, buffer]; a tensor call returns *)
(* [status, tensor].  status "Panic" is a Rust panic unwinding the call.   *)

NoBuffer == <<>>
NoTensor == [shape |-> <<>>, buffer |-> <<>>]

BufOk(buf) == [status |-> "Ok", buffer |-> buf]
BufErr(status) == [status |-> status, buffer |-> NoBuffer]
TensorOk(shape, buf) ==
    [status |-> "Ok", msg |-> "", tensor |-> [shape |-> shape, buffer |-> buf]]
\* msg tells which error site of the source produced the error
TensorErr(status, msg) == [status |-> status, msg |-> msg, tensor |-> NoTensor]

\* element i (0-based, as the source indexes) of a buffer
At(buf, i) == buf[i + 1]
ZeroBuffer(size) == [i \in 1..size |-> 0]
Min(x, y) == IF x <= y THEN x ELSE y

---------------------------------------------------------------------------
(* CPU backend: Buffer = Vec<f32> *)

\* mutant: the data ignored, size zeros allocated
CPUAllocateBuffer_ZeroFills(size, hasData, data) == BufOk(ZeroBuffer(size))

\* CPUBackend::allocate_buffer: the data copied when given (size is not
\* consulted), else size zeros
CPUAllocateBuffer(size, hasData, data) ==
    IF hasData THEN BufOk(data) ELSE BufOk(ZeroBuffer(size))

\* CPUBackend::read_buffer: a clone of the vector
CPUReadBuffer(buf) == buf

\* mutant: the sum computed with the product's closure
CPUElementWiseAdd_Multiplies(a, b, size) ==
    IF Len(a) # size \/ Len(b) # size
    THEN BufErr("BufferError")
    ELSE BufOk([i \in 1..Min(Len(a), Len(b)) |-> a[i] * b[i]])

\* CPUBackend::element_wise_add: a.iter().zip(b.iter()).map(x + y)
CPUElementWiseAdd(a, b, size) ==
    IF Len(a) # size \/ Len(b) # size
    THEN BufErr("BufferError")
    ELSE BufOk([i \in 1..Min(Len(a), Len(b)) |-> a[i] + b[i]])

\* mutant: the products replaced by sums
CPUElementWiseMultiply_Adds(a, b, size) ==
    IF Len(a) # size \/ Len(b) # size
    THEN BufErr("BufferError")
    ELSE BufOk([i \in 1..Min(Len(a), Len(b)) |-> a[i] + b[i]])

\* CPUBackend::element_wise_multiply
CPUElementWiseMultiply(a, b, size) ==
    IF Len(a) # size \/ Len(b) # size
    THEN BufErr("BufferError")
    ELSE BufOk([i \in 1..Min(Len(a), Len(b)) |-> a[i] * b[i]])

\* mutant: the scalar added instead of multiplied
CPUScalarMultiply_Adds(input, scalar, size) ==
    IF Len(input) # size
    THEN BufErr("BufferError")
    ELSE BufOk([i \in 1..Len(input) |-> input[i] + scalar])

\* CPUBackend::scalar_multiply
CPUScalarMultiply(input, scalar, size) ==
    IF Len(input) # size
    THEN BufErr("BufferError")
    ELSE BufOk([i \in 1..Len(input) |-> input[i] * scalar])

\* mutant: b read column-major, b[j*k + kk]
RECURSIVE CPUMatmulSum_TransposedB(_, _, _, _, _, _, _)
CPUMatmulSum_TransposedB(a, b, i, j, n, k, upto) ==
    IF upto = 0 THEN 0
    ELSE CPUMatmulSum_TransposedB(a, b, i, j, n, k, upto - 1)
         + At(a, i * k + (upto - 1)) * At(b, j * k + (upto - 1))

\* the inner loop of CPUBackend::matmul: sum after kk has run over 0..upto-1
RECURSIVE CPUMatmulSum(_, _, _, _, _, _, _)
CPUMatmulSum(a, b, i, j, n, k, upto) ==
    IF upto = 0 THEN 0
    ELSE CPUMatmulSum(a, b, i, j, n, k, upto - 1)
         + At(a, i * k + (upto - 1)) * At(b, (upto - 1) * n + j)

\* CPUBackend::matmul: c = vec![0.0; m*n]; c[i*n+j] = sum; an index past the
\* end of a or b panics (slice indexing is bounds-checked)
CPUMatmul(a, b, m, n, k) ==
    IF \E i \in 0..(m - 1), j \in 0..(n - 1), kk \in 0..(k - 1) :
           i * k + kk >= Len(a) \/ kk * n + j >= Len(b)
    THEN BufErr("Panic")
    ELSE BufOk([idx \in 1..(m * n) |->
                  CPUMatmulSum(a, b, (idx - 1) \div n, (idx - 1) % n, n, k, k)])

\* the inner loop of CPUBackend::matmul_batched
RECURSIVE CPUBatchedSum(_, _, _, _, _, _, _, _, _)
CPUBatchedSum(a, b, offA, offB, i, j, n, k, upto) ==
    IF upto = 0 THEN 0
    ELSE CPUBatchedSum(a, b, offA, offB, i, j, n, k, upto - 1)
         + At(a, offA + i * k + (upto - 1)) * At(b, offB + (upto - 1) * n + j)

\* mutant: a's batch offset left out
CPUMatmulBatched_NoOffsetA(a, b, batch_size, m, n, k) ==
    IF \E batch \in 0..(batch_size - 1), i \in 0..(m - 1),
          j \in 0..(n - 1), kk \in 0..(k - 1) :
           \/ i * k + kk >= Len(a)
           \/ batch * k * n + kk * n + j >= Len(b)
    THEN BufErr("Panic")
    ELSE BufOk([idx \in 1..(batch_size * m * n) |->
                  LET batch == (idx - 1) \div (m * n)
                      rest  == (idx - 1) % (m * n)
                  IN  CPUBatchedSum(a, b, 0, batch * k * n,
                                    rest \div n, rest % n, n, k, k)])

\* CPUBackend::matmul_batched: the same loop per batch at offsets
\* batch*m*k, batch*k*n and batch*m*n
CPUMatmulBatched(a, b, batch_size, m, n, k) ==
    IF \E batch \in 0..(batch_size - 1), i \in 0..(m - 1),
          j \in 0..(n - 1), kk \in 0..(k - 1) :
           \/ batch * m * k + i * k + kk >= Len(a)
           \/ batch * k * n + kk * n + j >= Len(b)
    THEN BufErr("Panic")
    ELSE BufOk([idx \in 1..(batch_size * m * n) |->
                  LET batch == (idx - 1) \div (m * n)
                      rest  == (idx - 1) % (m * n)
                  IN  CPUBatchedSum(a, b, batch * m * k, batch * k * n,
                                    rest \div n, rest % n, n, k, k)])

---------------------------------------------------------------------------
(* Metal backend: Buffer = a shared-storage MTLBuffer, modelled by its f32 *)
(* contents; its byte length is SizeOfF32 times their number.  The kernels *)
(* of shaders.metal are modelled by their call contract.                   *)

\* x as u32: x mod 2^32, computed on 16-bit halves
AsU32(x) == (x % (2 ^ 16)) + (2 ^ 16) * ((x \div (2 ^ 16)) % (2 ^ 16))

MetalBufferLength(buf) == Len(buf) * SizeOfF32

\* kernels element_wise_add / element_wise_multiply: slots 0:a 1:b 2:out,
\* one work-item per element of the 1-D grid
KernelElementWiseAdd(a, b, out, grid) ==
    [i \in 1..Len(out) |-> IF i <= grid THEN a[i] + b[i] ELSE out[i]]

KernelElementWiseMultiply(a, b, out, grid) ==
    [i \in 1..Len(out) |-> IF i <= grid THEN a[i] * b[i] ELSE out[i]]

\* kernel scalar_multiply: slots 0:in 1:out 2:f32 scalar
KernelScalarMultiply(input, out, scalar, grid) ==
    [i \in 1..Len(out) |-> IF i <= grid THEN input[i] * scalar ELSE out[i]]

RECURSIVE KernelDot(_, _, _, _, _, _, _, _, _)
KernelDot(a, b, offA, offB, row, col, N, K, upto) ==
    IF upto = 0 THEN 0
    ELSE KernelDot(a, b, offA, offB, row, col, N, K, upto - 1)
         + At(a, offA + row * K + (upto - 1)) * At(b, offB + (upto - 1) * N + col)

\* kernels matmul / matmul_tiled: slots 0:a 1:b 2:out 3:M 4:N 5:K, work-item
\* (x, y) of the 2-D grid computes out[y*N + x]; both variants compute the
\* same product
KernelMatmul(a, b, out, M, N, K, gridX, gridY) ==
    [idx \in 1..Len(out) |->
        LET row == (idx - 1) \div N
            col == (idx - 1) % N
        IN  IF row < gridY /\ col < gridX /\ row < M
            THEN KernelDot(a, b, 0, 0, row, col, N, K, K)
            ELSE out[idx]]

\* kernels matmul_batched / matmul_batched_tiled: slots 0:a 1:b 2:out 3:M
\* 4:N 5:K 6:batch, work-item (x, y, z) computes out[z*M*N + y*N + x]
KernelMatmulBatched(a, b, out, M, N, K, batch, gridX, gridY, gridZ) ==
    [idx \in 1..Len(out) |->
        LET z   == (idx - 1) \div (M * N)
            row == ((idx - 1) % (M * N)) \div N
            col == ((idx - 1) % (M * N)) % N
        IN  IF z < gridZ /\ z < batch /\ row < gridY /\ col < gridX
            THEN KernelDot(a, b, z * M * K, z * K * N, row, col, N, K, K)
            ELSE out[idx]]

\* MetalBackend::allocate_buffer: buffer_size = size * size_of::<f32>() bytes,
\* copied from data (after the length check) or newly zero-filled
MetalAllocateBuffer(size, hasData, data) ==
    LET buffer_size == size * SizeOfF32 IN
    IF hasData
    THEN IF Len(data) # size
         THEN BufErr("BufferError")
         ELSE BufOk(SubSeq(data, 1, buffer_size \div SizeOfF32))
    ELSE BufOk(ZeroBuffer(buffer_size \div SizeOfF32))

\* MetalBackend::read_buffer: buffer.length() / size_of::<f32>() elements
MetalReadBuffer(buf) ==
    SubSeq(buf, 1, MetalBufferLength(buf) \div SizeOfF32)

\* MetalBackend::element_wise_add: output of size elements, grid [size,1,1]
MetalElementWiseAdd(a, b, size) ==
    LET result_buffer == MetalAllocateBuffer(size, FALSE, <<>>) IN
    IF result_buffer.status # "Ok" THEN result_buffer
    ELSE BufOk(KernelElementWiseAdd(a, b, result_buffer.buffer, size))

\* MetalBackend::element_wise_multiply
MetalElementWiseMultiply(a, b, size) ==
    LET result_buffer == MetalAllocateBuffer(size, FALSE, <<>>) IN
    IF result_buffer.status # "Ok" THEN result_buffer
    ELSE BufOk(KernelElementWiseMultiply(a, b, result_buffer.buffer, size))

\* MetalBackend::scalar_multiply
MetalScalarMultiply(input, scalar, size) ==
    LET result_buffer == MetalAllocateBuffer(size, FALSE, <<>>) IN
    IF result_buffer.status # "Ok" THEN result_buffer
    ELSE BufOk(KernelScalarMultiply(input, result_buffer.buffer, scalar, size))

\* MetalBackend::matmul: output of m*n elements, uniforms as u32, grid [n,m,1]
MetalMatmul(a, b, m, n, k) ==
    LET result_buffer == MetalAllocateBuffer(m * n, FALSE, <<>>) IN
    IF result_buffer.status # "Ok" THEN result_buffer
    ELSE BufOk(KernelMatmul(a, b, result_buffer.buffer,
                            AsU32(m), AsU32(n), AsU32(k), n, m))

\* MetalBackend::matmul_batched: output of batch_size*m*n elements,
\* grid [n, m, batch_size]
MetalMatmulBatched(a, b, batch_size, m, n, k) ==
    LET result_buffer == MetalAllocateBuffer(batch_size * m * n, FALSE, <<>>) IN
    IF result_buffer.status # "Ok" THEN result_buffer
    ELSE BufOk(KernelMatmulBatched(a, b, result_buffer.buffer,
                                   AsU32(m), AsU32(n), AsU32(k), AsU32(batch_size),
                                   n, m, batch_size))

---------------------------------------------------------------------------
(* ComputeBackend: the static dispatch B::op of Tensor<B> *)

AllocateBuffer(B, size, hasData, data) ==
    IF B = "CPU" THEN CPUAllocateBuffer(size, hasData, data)
    ELSE MetalAllocateBuffer(size, hasData, data)

ReadBuffer(B, buf) ==
    IF B = "CPU" THEN CPUReadBuffer(buf) ELSE MetalReadBuffer(buf)

ElementWiseAdd(B, a, b, size) ==
    IF B = "CPU" THEN CPUElementWiseAdd(a, b, size)
    ELSE MetalElementWiseAdd(a, b, size)

ElementWiseMultiply(B, a, b, size) ==
    IF B = "CPU" THEN CPUElementWiseMultiply(a, b, size)
    ELSE MetalElementWiseMultiply(a, b, size)

ScalarMultiply(B, input, scalar, size) ==
    IF B = "CPU" THEN CPUScalarMultiply(input, scalar, size)
    ELSE MetalScalarMultiply(input, scalar, size)

Matmul(B, a, b, m, n, k) ==
    IF B = "CPU" THEN CPUMatmul(a, b, m, n, k) ELSE MetalMatmul(a, b, m, n, k)

MatmulBatched(B, a, b, batch_size, m, n, k) ==
    IF B = "CPU" THEN CPUMatmulBatched(a, b, batch_size, m, n, k)
    ELSE MetalMatmulBatched(a, b, batch_size, m, n, k)

\* a backend error leaves the tensor call through the ? operator
Propagate(res) == TensorErr(res.status, "backend")

---------------------------------------------------------------------------
(* Tensor<B> *)

\* mutant: the data length is not checked against the shape
TensorNew_NoCheck(B, shape, data) ==
    LET buffer == AllocateBuffer(B, ShapeSize(shape), TRUE, data) IN
    IF buffer.status # "Ok" THEN Propagate(buffer)
    ELSE TensorOk(shape, buffer.buffer)

\* Tensor::new
TensorNew(B, shape, data) ==
    IF Len(data) # ShapeSize(shape)
    THEN TensorErr("ShapeMismatch", "data_length")
    ELSE LET buffer == AllocateBuffer(B, ShapeSize(shape), TRUE, data) IN
         IF buffer.status # "Ok" THEN Propagate(buffer)
         ELSE TensorOk(shape, buffer.buffer)

\* Tensor::zeros
TensorZeros(B, shape) ==
    LET buffer == AllocateBuffer(B, ShapeSize(shape), FALSE, <<>>) IN
    IF buffer.status # "Ok" THEN Propagate(buffer)
    ELSE TensorOk(shape, buffer.buffer)

\* Tensor::data
TensorData(B, self) == ReadBuffer(B, self.buffer)

\* mutant: the operands' sizes compared instead of their shapes
TensorAdd_ComparesSizes(B, self, other) ==
    IF ShapeSize(self.shape) # ShapeSize(other.shape)
    THEN TensorErr("ShapeMismatch", "add_shapes")
    ELSE LET result_buffer ==
                 ElementWiseAdd(B, self.buffer, other.buffer, ShapeSize(self.shape))
         IN  IF result_buffer.status # "Ok" THEN Propagate(result_buffer)
             ELSE TensorOk(self.shape, result_buffer.buffer)

\* Tensor::add
TensorAdd(B, self, other) ==
    IF self.shape # other.shape
    THEN TensorErr("ShapeMismatch", "add_shapes")
    ELSE LET result_buffer ==
                 ElementWiseAdd(B, self.buffer, other.buffer, ShapeSize(self.shape))
         IN  IF result_buffer.status # "Ok" THEN Propagate(result_buffer)
             ELSE TensorOk(self.shape, result_buffer.buffer)

\* Tensor::multiply
TensorMultiply(B, self, other) ==
    IF self.shape # other.shape
    THEN TensorErr("ShapeMismatch", "multiply_shapes")
    ELSE LET result_buffer ==
                 ElementWiseMultiply(B, self.buffer, other.buffer, ShapeSize(self.shape))
         IN  IF result_buffer.status # "Ok" THEN Propagate(result_buffer)
             ELSE TensorOk(self.shape, result_buffer.buffer)

\* Tensor::scalar_multiply
TensorScalarMultiply(B, self, scalar) ==
    LET result_buffer ==
            ScalarMultiply(B, self.buffer, scalar, ShapeSize(self.shape))
    IN  IF result_buffer.status # "Ok" THEN Propagate(result_buffer)
        ELSE TensorOk(self.shape, result_buffer.buffer)

\* impl Neg for &Tensor
TensorNeg(B, self) == TensorScalarMultiply(B, self, -1)

\* mutant: the plain result given the shape [m, k]
MatmulDispatch_ShapeMK(B, self, other, m, n, k1) ==
    LET b1 == BatchSize(self.shape)
        b2 == BatchSize(other.shape)
    IN  IF b1.some /\ b2.some /\ b1.b = b2.b
        THEN LET result_buffer ==
                     MatmulBatched(B, self.buffer, other.buffer, b1.b, m, n, k1)
             IN  IF result_buffer.status # "Ok" THEN Propagate(result_buffer)
                 ELSE TensorOk(NewBatched(b1.b, m, n), result_buffer.buffer)
        ELSE IF ~b1.some /\ ~b2.some
        THEN LET result_buffer == Matmul(B, self.buffer, other.buffer, m, n, k1)
             IN  IF result_buffer.status # "Ok" THEN Propagate(result_buffer)
                 ELSE TensorOk(<<m, k1>>, result_buffer.buffer)
        ELSE TensorErr("ShapeMismatch", "matmul_batch")

\* the batch classification of Tensor::matmul (the match on both batch sizes)
MatmulDispatch(B, self, other, m, n, k1) ==
    LET b1 == BatchSize(self.shape)
        b2 == BatchSize(other.shape)
    IN  IF b1.some /\ b2.some /\ b1.b = b2.b
        THEN LET result_buffer ==
                     MatmulBatched(B, self.buffer, other.buffer, b1.b, m, n, k1)
             IN  IF result_buffer.status # "Ok" THEN Propagate(result_buffer)
                 ELSE TensorOk(NewBatched(b1.b, m, n), result_buffer.buffer)
        ELSE IF ~b1.some /\ ~b2.some
        THEN LET result_buffer == Matmul(B, self.buffer, other.buffer, m, n, k1)
             IN  IF result_buffer.status # "Ok" THEN Propagate(result_buffer)
                 ELSE TensorOk(<<m, n>>, result_buffer.buffer)
        ELSE TensorErr("ShapeMismatch", "matmul_batch")

\* mutant: an inner-dimension mismatch reported as a BufferError
TensorMatmul_InnerAsBufferError(B, self, other) ==
    IF Len(self.shape) < 2 \/ Len(other.shape) < 2
    THEN TensorErr("ShapeMismatch", "matmul_rank")
    ELSE LET d1 == MatrixDims(self.shape)
             d2 == MatrixDims(other.shape)
         IN  IF d1.panic \/ d2.panic
             THEN TensorErr("Panic", "matrix_dims")
             ELSE IF d1.cols # d2.rows
             THEN TensorErr("BufferError", "matmul_inner")
             ELSE MatmulDispatch(B, self, other, d1.rows, d2.cols, d1.cols)

\* mutant: the rank check refuses only when both operands are below rank 2
TensorMatmul_RankCheckAnd(B, self, other) ==
    IF Len(self.shape) < 2 /\ Len(other.shape) < 2
    THEN TensorErr("ShapeMismatch", "matmul_rank")
    ELSE LET d1 == MatrixDims(self.shape)
             d2 == MatrixDims(other.shape)
         IN  IF d1.panic \/ d2.panic
             THEN TensorErr("Panic", "matrix_dims")
             ELSE IF d1.cols # d2.rows
             THEN TensorErr("ShapeMismatch", "matmul_inner")
             ELSE MatmulDispatch(B, self, other, d1.rows, d2.cols, d1.cols)

\* mutant: the batch classification made before the inner-dimension check
TensorMatmul_BatchBeforeInner(B, self, other) ==
    IF Len(self.shape) < 2 \/ Len(other.shape) < 2
    THEN TensorErr("ShapeMismatch", "matmul_rank")
    ELSE LET d1 == MatrixDims(self.shape)
             d2 == MatrixDims(other.shape)
             b1 == BatchSize(self.shape)
             b2 == BatchSize(other.shape)
         IN  IF d1.panic \/ d2.panic
             THEN TensorErr("Panic", "matrix_dims")
             ELSE IF ~(b1.some /\ b2.some /\ b1.b = b2.b) /\ ~(~b1.some /\ ~b2.some)
             THEN TensorErr("ShapeMismatch", "matmul_batch")
             ELSE IF d1.cols # d2.rows
             THEN TensorErr("ShapeMismatch", "matmul_inner")
             ELSE MatmulDispatch(B, self, other, d1.rows, d2.cols, d1.cols)

\* Tensor::matmul: rank check, matrix_dims of both operands (which panics on a
\* rank above 3), inner-dimension check, then the batch classification
TensorMatmul(B, self, other) ==
    IF Len(self.shape) < 2 \/ Len(other.shape) < 2
    THEN TensorErr("ShapeMismatch", "matmul_rank")
    ELSE LET d1 == MatrixDims(self.shape)
             d2 == MatrixDims(other.shape)
         IN  IF d1.panic \/ d2.panic
             THEN TensorErr("Panic", "matrix_dims")
             ELSE IF d1.cols # d2.rows
             THEN TensorErr("ShapeMismatch", "matmul_inner")
             ELSE MatmulDispatch(B, self, other, d1.rows, d2.cols, d1.cols)

---------------------------------------------------------------------------
(* The backend operations a Tensor method invokes, in order.  An entry has  *)
(* the operation, the lengths of the data slice or buffers handed over and  *)
(* the lengths the size arguments of the call stand for.                    *)

BackendCall(op, lens, expect) == [op |-> op, lens |-> lens, expect |-> expect]

\* Tensor::new: allocate_buffer(shape.size(), Some(data)) after the length check
TensorNewCalls(shape, data) ==
    IF Len(data) # ShapeSize(shape) THEN <<>>
    ELSE <<BackendCall("allocate_buffer", <<Len(data)>>, <<ShapeSize(shape)>>)>>

\* Tensor::zeros: allocate_buffer(shape.size(), None)
TensorZerosCalls(shape) == <<BackendCall("allocate_buffer", <<>>, <<>>)>>

\* Tensor::data: read_buffer(&self.buffer), which takes no size
TensorDataCalls(self) == <<BackendCall("read_buffer", <<>>, <<>>)>>

\* mutant: element_wise_add invoked before the shapes are compared
TensorAddCalls_BeforeCheck(self, other) ==
    <<BackendCall("element_wise_add", <<Len(self.buffer), Len(other.buffer)>>,
                  <<ShapeSize(self.shape), ShapeSize(self.shape)>>)>>

\* Tensor::add: element_wise_add(self.buffer, other.buffer, self.shape.size())
\* after the shape check
TensorAddCalls(self, other) ==
    IF self.shape # other.shape THEN <<>>
    ELSE <<BackendCall("element_wise_add", <<Len(self.buffer), Len(other.buffer)>>,
                       <<ShapeSize(self.shape), ShapeSize(self.shape)>>)>>

\* Tensor::multiply
TensorMultiplyCalls(self, other) ==
    IF self.shape # other.shape THEN <<>>
    ELSE <<BackendCall("element_wise_multiply",
                       <<Len(self.buffer), Len(other.buffer)>>,
                       <<ShapeSize(self.shape), ShapeSize(self.shape)>>)>>

\* Tensor::scalar_multiply: no check precedes the backend call
TensorScalarMultiplyCalls(self) ==
    <<BackendCall("scalar_multiply", <<Len(self.buffer)>>, <<ShapeSize(self.shape)>>)>>

\* Tensor::matmul: matmul_batched(b1, m, n, k1) or matmul(m, n, k1) after the
\* rank check, matrix_dims, the inner-dimension check and the batch match
TensorMatmulCalls(self, other) ==
    IF Len(self.shape) < 2 \/ Len(other.shape) < 2 THEN <<>>
    ELSE LET d1 == MatrixDims(self.shape)
             d2 == MatrixDims(other.shape)
             b1 == BatchSize(self.shape)
             b2 == BatchSize(other.shape)
             m  == d1.rows
             n  == d2.cols
             k1 == d1.cols
         IN  IF d1.panic \/ d2.panic THEN <<>>
             ELSE IF d1.cols # d2.rows THEN <<>>
             ELSE IF b1.some /\ b2.some /\ b1.b = b2.b
             THEN <<BackendCall("matmul_batched",
                                <<Len(self.buffer), Len(other.buffer)>>,
                                <<b1.b * m * k1, b1.b * k1 * n>>)>>
             ELSE IF ~b1.some /\ ~b2.some
             THEN <<BackendCall("matmul", <<Len(self.buffer), Len(other.buffer)>>,
                                <<m * k1, k1 * n>>)>>
             ELSE <<>>

---------------------------------------------------------------------------
(* The program: calls on the tensor API *)

NoSlot == "-"
NoChain == [active |-> FALSE]
NoHeap == [next |-> 1, bufs |-> <<>>]
\* the tensor API and the chain are modelled on buffer contents alone
\* no Metal device in use: no call in progress, no command buffer, no buffer
NoGpu == [frames |-> <<>>, cmds |-> <<>>, bufs |-> <<>>]
NoMemory ==
    heap = NoHeap /\ ctxs = <<>> /\ objs = <<>> /\ threads = <<>> /\ gpu = NoGpu
FreeSlots == {i \in 1..Len(Slots) : Slots[i] \notin DOMAIN tensors}
FirstFree == Slots[CHOOSE i \in FreeSlots : \A j \in FreeSlots : i <= j]

\* the panic of a call unwinds the program: no call follows it
Running == last.status # "Panic"

\* the backend operations the call op invokes on its operands
CallsOf(op, self, other, shape, data) ==
    CASE op = "new"             -> TensorNewCalls(shape, data)
      [] op = "zeros"           -> TensorZerosCalls(shape)
      [] op = "data"            -> TensorDataCalls(tensors[self])
      [] op = "add"             -> TensorAddCalls(tensors[self], tensors[other])
      [] op = "multiply"        -> TensorMultiplyCalls(tensors[self], tensors[other])
      [] op = "scalar_multiply" -> TensorScalarMultiplyCalls(tensors[self])
      [] op = "neg"             -> TensorScalarMultiplyCalls(tensors[self])
      [] op = "matmul"          -> TensorMatmulCalls(tensors[self], tensors[other])
      [] OTHER                  -> <<>>

\* the record of a call: op, the bindings of its operands, its other inputs,
\* the status and error site of the Result, the tensor returned (NoTensor on
\* an error), the binding the caller gave it (NoSlot: a temporary) and the
\* Vec<f32> returned when the call is data(), and the backend operations
\* invoked during the call
Call(op, self, other, shape, data, scalar, res, bound) ==
    [op |-> op, self |-> self, other |-> other, shape |-> shape, data |-> data,
     scalar |-> scalar, status |-> res.status, msg |-> res.msg,
     result |-> res.tensor, bound |-> bound, read |-> <<>>,
     calls |-> CallsOf(op, self, other, shape, data)]

\* the caller keeps the returned tensor in its next free binding, or drops it
Return(op, self, other, shape, data, scalar, res, keep) ==
    IF res.status = "Ok" /\ keep
    THEN /\ tensors' = tensors @@ (FirstFree :> res.tensor)
         /\ last' = Call(op, self, other, shape, data, scalar, res, FirstFree)
    ELSE /\ tensors' = tensors
         /\ last' = Call(op, self, other, shape, data, scalar, res, NoSlot)

Keeps == IF FreeSlots # {} THEN BOOLEAN ELSE {FALSE}

Init ==
    /\ backend \in Backends
    /\ tensors = <<>>
    /\ last = Call("none", NoSlot, NoSlot, <<>>, <<>>, 0,
                   [status |-> "None", msg |-> "", tensor |-> NoTensor], NoSlot)
    /\ chain = NoChain
    /\ NoMemory

\* let x = Tensor::new(ctx, shape, data)
New(shape, data) ==
    /\ Running
    /\ FreeSlots # {}
    /\ Return("new", NoSlot, NoSlot, shape, data, 0,
              TensorNew(backend, shape, data), TRUE)
    /\ UNCHANGED <<backend, chainVars, memVars, gpuVars>>

\* let x = Tensor::zeros(ctx, shape)
NewZeros(shape) ==
    /\ Running
    /\ FreeSlots # {}
    /\ Return("zeros", NoSlot, NoSlot, shape, <<>>, 0,
              TensorZeros(backend, shape), TRUE)
    /\ UNCHANGED <<backend, chainVars, memVars, gpuVars>>

\* self.add(&other)
Add(self, other, keep) ==
    /\ Running
    /\ Return("add", self, other, <<>>, <<>>, 0,
              TensorAdd(backend, tensors[self], tensors[other]), keep)
    /\ UNCHANGED <<backend, chainVars, memVars, gpuVars>>

\* self.multiply(&other)
Multiply(self, other, keep) ==
    /\ Running
    /\ Return("multiply", self, other, <<>>, <<>>, 0,
              TensorMultiply(backend, tensors[self], tensors[other]), keep)
    /\ UNCHANGED <<backend, chainVars, memVars, gpuVars>>

\* self.scalar_multiply(scalar)
ScalarMul(self, scalar, keep) ==
    /\ Running
    /\ Return("scalar_multiply", self, NoSlot, <<>>, <<>>, scalar,
              TensorScalarMultiply(backend, tensors[self], scalar), keep)
    /\ UNCHANGED <<backend, chainVars, memVars, gpuVars>>

\* -&self
Neg(self, keep) ==
    /\ Running
    /\ Return("neg", self, NoSlot, <<>>, <<>>, 0,
              TensorNeg(backend, tensors[self]), keep)
    /\ UNCHANGED <<backend, chainVars, memVars, gpuVars>>

\* let v = self.data(): read_buffer never fails; no tensor is returned
Data(self) ==
    /\ Running
    /\ tensors' = tensors
    /\ last' = [Call("data", self, NoSlot, <<>>, <<>>, 0,
                     [status |-> "Ok", msg |-> "", tensor |-> NoTensor], NoSlot)
                    EXCEPT !.read = TensorData(backend, tensors[self])]
    /\ UNCHANGED <<backend, chainVars, memVars, gpuVars>>

\* self.matmul(&other)
MatmulCall(self, other, keep) ==
    /\ Running
    /\ Return("matmul", self, other, <<>>, <<>>, 0,
              TensorMatmul(backend, tensors[self], tensors[other]), keep)
    /\ UNCHANGED <<backend, chainVars, memVars, gpuVars>>

Next ==
    \/ \E shape \in Shapes : \E data \in DataFor(Product(shape)) : New(shape, data)
    \/ \E shape \in Shapes : NewZeros(shape)
    \/ \E self \in DOMAIN tensors, other \in DOMAIN tensors, keep \in Keeps :
          Add(self, other, keep)
    \/ \E self \in DOMAIN tensors, other \in DOMAIN tensors, keep \in Keeps :
          Multiply(self, other, keep)
    \/ \E self \in DOMAIN tensors, scalar \in Scalars, keep \in Keeps :
          ScalarMul(self, scalar, keep)
    \/ \E self \in DOMAIN tensors, keep \in Keeps : Neg(self, keep)
    \/ \E self \in DOMAIN tensors, other \in DOMAIN tensors, keep \in Keeps :
          MatmulCall(self, other, keep)
    \/ \E self \in DOMAIN tensors : Data(self)

Spec == Init /\ [][Next]_vars

---------------------------------------------------------------------------
(* The backend called directly: B::allocate_buffer and the element-wise    *)
(* operations are public functions of the ComputeBackend trait, and a       *)
(* caller may hand them any slice, buffers and size.                        *)

\* the sizes passed, and the lengths of the slices and buffers handed over
Sizes == 1..MaxDimSum
Buffers == {Ramp(n, 1) : n \in Sizes}

\* what a kernel finds when it reads past the end of a device buffer
Garbage == {0, 9}
\* the device memory at a buffer's address, as far as a grid of n reads it
DeviceView(buf, n, junk) ==
    [i \in 1..(IF n > Len(buf) THEN n ELSE Len(buf)) |->
        IF i <= Len(buf) THEN buf[i] ELSE junk]

\* the record of a backend call: its arguments, the status and the buffer
\* of the Result
BackendResult(op, a, b, size, hasData, data, scalar, res) ==
    [op |-> op, a |-> a, b |-> b, size |-> size, hasData |-> hasData,
     data |-> data, scalar |-> scalar, status |-> res.status,
     buffer |-> res.buffer]

InitBackend ==
    /\ backend \in Backends
    /\ tensors = <<>>
    /\ last = BackendResult("none", <<>>, <<>>, 0, FALSE, <<>>, 0, BufErr("None"))
    /\ chain = NoChain
    /\ NoMemory

\* B::allocate_buffer(&ctx, size, data)
BackendAllocate(size, hasData, data) ==
    /\ last' = BackendResult("allocate_buffer", <<>>, <<>>, size, hasData, data, 0,
                             AllocateBuffer(backend, size, hasData, data))
    /\ UNCHANGED <<backend, tensors, chainVars, memVars, gpuVars>>

\* B::element_wise_add(&ctx, &a, &b, size)
BackendAdd(a, b, size, junk) ==
    /\ last' = BackendResult("element_wise_add", a, b, size, FALSE, <<>>, 0,
                   IF backend = "CPU" THEN CPUElementWiseAdd(a, b, size)
                   ELSE MetalElementWiseAdd(DeviceView(a, size, junk),
                                            DeviceView(b, size, junk), size))
    /\ UNCHANGED <<backend, tensors, chainVars, memVars, gpuVars>>

\* B::element_wise_multiply(&ctx, &a, &b, size)
BackendMultiply(a, b, size, junk) ==
    /\ last' = BackendResult("element_wise_multiply", a, b, size, FALSE, <<>>, 0,
                   IF backend = "CPU" THEN CPUElementWiseMultiply(a, b, size)
                   ELSE MetalElementWiseMultiply(DeviceView(a, size, junk),
                                                 DeviceView(b, size, junk), size))
    /\ UNCHANGED <<backend, tensors, chainVars, memVars, gpuVars>>

\* B::scalar_multiply(&ctx, &input, scalar, size)
BackendScalarMultiply(input, scalar, size, junk) ==
    /\ last' = BackendResult("scalar_multiply", input, <<>>, size, FALSE, <<>>, scalar,
                   IF backend = "CPU" THEN CPUScalarMultiply(input, scalar, size)
                   ELSE MetalScalarMultiply(DeviceView(input, size, junk), scalar, size))
    /\ UNCHANGED <<backend, tensors, chainVars, memVars, gpuVars>>

NextBackend ==
    \/ \E size \in Sizes : BackendAllocate(size, FALSE, <<>>)
    \/ \E size \in Sizes, data \in Buffers : BackendAllocate(size, TRUE, data)
    \/ \E a \in Buffers, b \in Buffers, size \in Sizes, junk \in Garbage :
          BackendAdd(a, b, size, junk)
    \/ \E a \in Buffers, b \in Buffers, size \in Sizes, junk \in Garbage :
          BackendMultiply(a, b, size, junk)
    \/ \E input \in Buffers, scalar \in Scalars, size \in Sizes, junk \in Garbage :
          BackendScalarMultiply(input, scalar, size, junk)

SpecBackend == InitBackend /\ [][NextBackend]_vars

---------------------------------------------------------------------------
(* TensorChain: tensor.chain() moves the tensor into a chain that holds a   *)
(* Result<Tensor>; each step maps the held result with Result::and_then,    *)
(* whose closure runs on an Ok value only; finish() hands the result back.  *)

\* Tensor::chain: TensorChain { tensor: Ok(self) }
TensorChainNew(self) == TensorOk(self.shape, self.buffer)

\* TensorChain::matmul
TensorChainMatmul(B, held, other) ==
    IF held.status = "Ok" THEN TensorMatmul(B, held.tensor, other) ELSE held

\* mutant: a step on a held error reports its own error
TensorChainAdd_OwnError(B, held, other) ==
    IF held.status = "Ok" THEN TensorAdd(B, held.tensor, other)
    ELSE TensorErr("ShapeMismatch", "add_shapes")

\* TensorChain::add
TensorChainAdd(B, held, other) ==
    IF held.status = "Ok" THEN TensorAdd(B, held.tensor, other) ELSE held

\* TensorChain::multiply
TensorChainMultiply(B, held, other) ==
    IF held.status = "Ok" THEN TensorMultiply(B, held.tensor, other) ELSE held

\* TensorChain::scalar_multiply
TensorChainScalarMultiply(B, held, scalar) ==
    IF held.status = "Ok" THEN TensorScalarMultiply(B, held.tensor, scalar) ELSE held

\* TensorChain::finish
TensorChainFinish(held) == held

\* the tensors the caller has built before it starts a chain
InitTensors(B) ==
    {TensorNew(B, shape, Ramp(ShapeSize(shape), 1)).tensor : shape \in Shapes}

\* the record of a chain call: the step, its operand, the result held before
\* it and after it, whether the closure of and_then ran and the backend
\* operations it invoked
ChainCall(op, other, scalar, before, held, calls) ==
    [op |-> op, other |-> other, scalar |-> scalar, before |-> before,
     status |-> held.status, msg |-> held.msg, result |-> held.tensor,
     invoked |-> (before.status = "Ok" /\ op \notin {"chain", "finish"}),
     calls |-> IF before.status = "Ok" THEN calls ELSE <<>>]

\* another step of the chain the caller holds
ChainStep(op, other, scalar, held, calls) ==
    /\ Running
    /\ chain.active /\ ~chain.finished
    /\ Len(chain.steps) < MaxChainSteps
    /\ chain' = [chain EXCEPT
                    !.held = held,
                    !.steps = Append(@, [op |-> op, other |-> other, scalar |-> scalar])]
    /\ last' = ChainCall(op, other, scalar, chain.held, held, calls)
    /\ UNCHANGED <<backend, tensors, memVars, gpuVars>>

InitChain ==
    /\ backend \in Backends
    /\ tensors \in {("a" :> ta) @@ ("b" :> tb) :
                       ta \in InitTensors(backend), tb \in InitTensors(backend)}
    /\ last = ChainCall("none", NoSlot, 0, TensorErr("None", ""), TensorErr("None", ""), <<>>)
    /\ chain = NoChain
    /\ NoMemory

\* self.chain(): the tensor is moved out of its binding
ChainStart(self) ==
    /\ ~chain.active
    /\ chain' = [active |-> TRUE, finished |-> FALSE, start |-> tensors[self],
                 held |-> TensorChainNew(tensors[self]), steps |-> <<>>]
    /\ tensors' = [s \in DOMAIN tensors \ {self} |-> tensors[s]]
    /\ last' = ChainCall("chain", NoSlot, 0, TensorChainNew(tensors[self]),
                         TensorChainNew(tensors[self]), <<>>)
    /\ UNCHANGED <<backend, memVars, gpuVars>>

\* chain.matmul(&other)
ChainMatmul(other) ==
    ChainStep("matmul", other, 0,
              TensorChainMatmul(backend, chain.held, tensors[other]),
              TensorMatmulCalls(chain.held.tensor, tensors[other]))

\* chain.add(&other)
ChainAdd(other) ==
    ChainStep("add", other, 0,
              TensorChainAdd(backend, chain.held, tensors[other]),
              TensorAddCalls(chain.held.tensor, tensors[other]))

\* chain.multiply(&other)
ChainMultiply(other) ==
    ChainStep("multiply", other, 0,
              TensorChainMultiply(backend, chain.held, tensors[other]),
              TensorMultiplyCalls(chain.held.tensor, tensors[other]))

\* chain.scalar_multiply(scalar)
ChainScalarMultiply(scalar) ==
    ChainStep("scalar_multiply", NoSlot, scalar,
              TensorChainScalarMultiply(backend, chain.held, scalar),
              TensorScalarMultiplyCalls(chain.held.tensor))

\* chain.finish()
ChainFinish ==
    /\ Running
    /\ chain.active /\ ~chain.finished
    /\ chain' = [chain EXCEPT !.finished = TRUE]
    /\ last' = ChainCall("finish", NoSlot, 0, chain.held,
                         TensorChainFinish(chain.held), <<>>)
    /\ UNCHANGED <<backend, tensors, memVars, gpuVars>>

NextChain ==
    \/ \E self \in DOMAIN tensors : ChainStart(self)
    \/ \E other \in DOMAIN tensors : ChainMatmul(other)
    \/ \E other \in DOMAIN tensors : ChainAdd(other)
    \/ \E other \in DOMAIN tensors : ChainMultiply(other)
    \/ \E scalar \in Scalars : ChainScalarMultiply(scalar)
    \/ ChainFinish

SpecChain == InitChain /\ [][NextChain]_vars

---------------------------------------------------------------------------
(* Transposed matmul.  Tensor::matmul_transposed is called by the transpose  *)
(* wrapper and by the examples, and the trait declares matmul_transposed and *)
(* matmul_transposed_batched; of these only MetalBackend::matmul_transposed  *)
(* has a body in the source.  The others follow the specification: the same *)
(* checks as matmul on the dims taken under the flags, an m x n result from *)
(* an effective m x k left and k x n right operand, per batch when batched. *)

\* the sum over kk of A[row,kk] * B[kk,col], where a transposed operand is
\* stored with its rows and columns swapped (a: k x m, b: n x k)
RECURSIVE TransposedDot(_, _, _, _, _, _, _, _, _, _, _, _)
TransposedDot(a, b, offA, offB, row, col, M, N, K, ta, tb, upto) ==
    IF upto = 0 THEN 0
    ELSE LET kk == upto - 1
             ea == IF ta THEN At(a, offA + kk * M + row) ELSE At(a, offA + row * K + kk)
             eb == IF tb THEN At(b, offB + col * K + kk) ELSE At(b, offB + kk * N + col)
         IN  TransposedDot(a, b, offA, offB, row, col, M, N, K, ta, tb, kk) + ea * eb

\* kernels matmul_transposed / matmul_transposed_tiled: slots 0:a 1:b 2:out
\* 3:M 4:N 5:K 6:transpose_a 7:transpose_b, work-item (x, y) computes
\* out[y*N + x]
KernelMatmulTransposed(a, b, out, M, N, K, ta, tb, gridX, gridY) ==
    [idx \in 1..Len(out) |->
        LET row == (idx - 1) \div N
            col == (idx - 1) % N
        IN  IF row < gridY /\ col < gridX /\ row < M
            THEN TransposedDot(a, b, 0, 0, row, col, M, N, K, ta, tb, K)
            ELSE out[idx]]

\* MetalBackend::matmul_transposed: output of m*n elements from
\* device.new_buffer, uniforms as u32, the flags, grid [n,m,1]
MetalMatmulTransposed(a, b, m, n, k, transpose_a, transpose_b) ==
    LET result_buffer == ZeroBuffer((m * n * SizeOfF32) \div SizeOfF32) IN
    BufOk(KernelMatmulTransposed(a, b, result_buffer, AsU32(m), AsU32(n), AsU32(k),
                                 transpose_a, transpose_b, n, m))

\* matmul_transposed of the CPU backend, as the specification has it
CPUMatmulTransposed(a, b, m, n, k, transpose_a, transpose_b) ==
    BufOk([idx \in 1..(m * n) |->
             TransposedDot(a, b, 0, 0, (idx - 1) \div n, (idx - 1) % n,
                           m, n, k, transpose_a, transpose_b, k)])

\* matmul_transposed_batched, as the specification has it for both backends:
\* the same per batch index, outputs concatenated in batch-major order
MatmulTransposedBatchedSpec(a, b, batch_size, m, n, k, transpose_a, transpose_b) ==
    BufOk([idx \in 1..(batch_size * m * n) |->
             LET batch == (idx - 1) \div (m * n)
                 rest  == (idx - 1) % (m * n)
             IN  TransposedDot(a, b, batch * m * k, batch * k * n,
                               rest \div n, rest % n, m, n, k,
                               transpose_a, transpose_b, k)])

MatmulTransposed(B, a, b, m, n, k, transpose_a, transpose_b) ==
    IF B = "CPU" THEN CPUMatmulTransposed(a, b, m, n, k, transpose_a, transpose_b)
    ELSE MetalMatmulTransposed(a, b, m, n, k, transpose_a, transpose_b)

MatmulTransposedBatched(B, a, b, batch_size, m, n, k, transpose_a, transpose_b) ==
    MatmulTransposedBatchedSpec(a, b, batch_size, m, n, k, transpose_a, transpose_b)

\* (rows, cols) of an operand under its transpose flag
EffectiveDims(d, transpose) ==
    IF transpose THEN [rows |-> d.cols, cols |-> d.rows]
    ELSE [rows |-> d.rows, cols |-> d.cols]

\* mutant: the inner dimensions compared as stored, the flags ignored
TensorMatmulTransposed_StoredDims(B, self, other, transpose_a, transpose_b) ==
    IF Len(self.shape) < 2 \/ Len(other.shape) < 2
    THEN TensorErr("ShapeMismatch", "matmul_rank")
    ELSE LET d1 == MatrixDims(self.shape)
             d2 == MatrixDims(other.shape)
         IN  IF d1.panic \/ d2.panic
             THEN TensorErr("Panic", "matrix_dims")
             ELSE IF d1.cols # d2.rows
             THEN TensorErr("ShapeMismatch", "matmul_inner")
             ELSE TensorOk(<<d1.rows, d2.cols>>, ZeroBuffer(d1.rows * d2.cols))

\* Tensor::matmul_transposed: the checks of matmul on the effective dims
TensorMatmulTransposed(B, self, other, transpose_a, transpose_b) ==
    IF Len(self.shape) < 2 \/ Len(other.shape) < 2
    THEN TensorErr("ShapeMismatch", "matmul_rank")
    ELSE LET d1 == MatrixDims(self.shape)
             d2 == MatrixDims(other.shape)
             e1 == EffectiveDims(d1, transpose_a)
             e2 == EffectiveDims(d2, transpose_b)
             b1 == BatchSize(self.shape)
             b2 == BatchSize(other.shape)
             m  == e1.rows
             n  == e2.cols
             k  == e1.cols
         IN  IF d1.panic \/ d2.panic
             THEN TensorErr("Panic", "matrix_dims")
             ELSE IF e1.cols # e2.rows
             THEN TensorErr("ShapeMismatch", "matmul_inner")
             ELSE IF b1.some /\ b2.some /\ b1.b = b2.b
             THEN LET result_buffer ==
                          MatmulTransposedBatched(B, self.buffer, other.buffer, b1.b,
                                                  m, n, k, transpose_a, transpose_b)
                  IN  IF result_buffer.status # "Ok" THEN Propagate(result_buffer)
                      ELSE TensorOk(NewBatched(b1.b, m, n), result_buffer.buffer)
             ELSE IF ~b1.some /\ ~b2.some
             THEN LET result_buffer ==
                          MatmulTransposed(B, self.buffer, other.buffer,
                                           m, n, k, transpose_a, transpose_b)
                  IN  IF result_buffer.status # "Ok" THEN Propagate(result_buffer)
                      ELSE TensorOk(<<m, n>>, result_buffer.buffer)
             ELSE TensorErr("ShapeMismatch", "matmul_batch")

\* Tensor::t: the tensor paired with transpose = true
TensorT(self) == [tensor |-> self, transpose |-> TRUE]

\* impl Mul for &TransposedTensor
TransposedTensorMul(B, self, other) ==
    TensorMatmulTransposed(B, self.tensor, other.tensor, self.transpose, other.transpose)

---------------------------------------------------------------------------
(* Memory: buffers by identity and the shared context.  A tensor owns its  *)
(* buffer and holds an Arc clone of the context it was built against; the   *)
(* caller holds the Arc that B::new() returned until it drops it.           *)

MemSlots == <<"a", "b", "c">>
CtxNames == {"ctx1", "ctx2"}
\* the shapes of the two tensors the memory model starts from: plain
\* matrices of one and of two elements, and a batched one
MemShapes == {<<1, 1>>, <<2, 1>>, <<1, 1, 1>>}

\* an allocation takes the next identity; identities are not reused
HeapAlloc(h, contents) ==
    [next |-> h.next + 1, bufs |-> h.bufs @@ (h.next :> contents)]
HeapFree(h, id) ==
    [h EXCEPT !.bufs = [i \in DOMAIN h.bufs \ {id} |-> h.bufs[i]]]

\* B::new(): Ok(Arc::new(context)); the context has no field that is assigned
\* after construction
ContextNew(B) == [backend |-> B, state |-> "constructed"]
ArcNew(value, strong) ==
    [value |-> value, strong |-> strong, held |-> TRUE, released |-> FALSE]
\* Arc::clone(&ctx)
ArcClone(cs, c) == [cs EXCEPT ![c].strong = @ + 1]

\* drop of an Arc: the context is released when the last reference goes
ArcDrop(cs, c) ==
    [cs EXCEPT ![c].strong = @ - 1, ![c].released = (cs[c].strong = 1)]

\* the tensor as the tensor methods see it: its shape and buffer contents
Deref(o) == [shape |-> o.shape, buffer |-> heap.bufs[o.buffer]]

\* mutant: the result accumulated in the first input buffer before it is
\* copied to the output
BackendOutput_ThroughFirstInput(h, a, b, contents) ==
    [heap |-> HeapAlloc([h EXCEPT !.bufs[a] =
                            [i \in 1..Len(h.bufs[a]) |->
                                IF i <= Len(contents) THEN contents[i]
                                ELSE h.bufs[a][i]]],
                        contents),
     out |-> h.next]

\* mutant: the result written into the first input buffer
BackendOutput_InPlace(h, a, b, contents) ==
    [heap |-> [h EXCEPT !.bufs[a] = contents], out |-> a]

\* mutant: every operation writes its result to one scratch buffer
BackendOutput_SharedScratch(h, a, b, contents) ==
    [heap |-> [next |-> h.next, bufs |-> [i \in DOMAIN h.bufs \cup {h.next} |->
                                            IF i = h.next THEN contents ELSE h.bufs[i]]],
     out |-> h.next]

\* the result buffer of a backend operation on the buffers a and b: newly
\* allocated in the call (vec! / collect / to_vec / clone on the CPU,
\* allocate_buffer(size, None) or device.new_buffer on Metal), filled and
\* returned; a and b are borrowed and not written
BackendOutput(h, a, b, contents) ==
    [heap |-> HeapAlloc(h, contents), out |-> h.next]

MemFreeSlots == {i \in 1..Len(MemSlots) : MemSlots[i] \notin DOMAIN objs}
MemFirstFree == MemSlots[CHOOSE i \in MemFreeSlots : \A j \in MemFreeSlots : i <= j]
MemKeeps == IF MemFreeSlots # {} THEN BOOLEAN ELSE {FALSE}

\* the record of a call of the memory model: the buffers allocated before
\* it, the buffer of the tensor it returned (0: none) and its binding
MemCall(op, self, other, status, out, bound) ==
    [op |-> op, self |-> self, other |-> other, status |-> status,
     before |-> DOMAIN heap.bufs, out |-> out, bound |-> bound]

\* mutant: the returned tensor holds the context of other
MemReturn_CtxOfOther(op, self, other, res, keep) ==
    IF res.status # "Ok"
    THEN /\ last' = MemCall(op, self, other, res.status, 0, NoSlot)
         /\ UNCHANGED <<heap, ctxs, objs>>
    ELSE LET o == BackendOutput(heap, objs[self].buffer, objs[other].buffer,
                                res.tensor.buffer)
         IN  IF keep
             THEN /\ heap' = o.heap
                  /\ objs' = objs @@ (MemFirstFree :>
                                [shape |-> res.tensor.shape, buffer |-> o.out,
                                 ctx |-> objs[other].ctx])
                  /\ ctxs' = ArcClone(ctxs, objs[other].ctx)
                  /\ last' = MemCall(op, self, other, "Ok", o.out, MemFirstFree)
             ELSE /\ heap' = HeapFree(o.heap, o.out)
                  /\ UNCHANGED <<ctxs, objs>>
                  /\ last' = MemCall(op, self, other, "Ok", o.out, NoSlot)

\* the end of a tensor method: an error leaves everything as it was; on
\* success the tensor { buffer: result_buffer, shape, ctx: Arc::clone(&self.ctx) }
\* is bound by the caller, or dropped at once as a temporary
MemReturn(op, self, other, res, keep) ==
    IF res.status # "Ok"
    THEN /\ last' = MemCall(op, self, other, res.status, 0, NoSlot)
         /\ UNCHANGED <<heap, ctxs, objs>>
    ELSE LET o == BackendOutput(heap, objs[self].buffer, objs[other].buffer,
                                res.tensor.buffer)
         IN  IF keep
             THEN /\ heap' = o.heap
                  /\ objs' = objs @@ (MemFirstFree :>
                                [shape |-> res.tensor.shape, buffer |-> o.out,
                                 ctx |-> objs[self].ctx])
                  /\ ctxs' = ArcClone(ctxs, objs[self].ctx)
                  /\ last' = MemCall(op, self, other, "Ok", o.out, MemFirstFree)
             ELSE /\ heap' = HeapFree(o.heap, o.out)
                  /\ UNCHANGED <<ctxs, objs>>
                  /\ last' = MemCall(op, self, other, "Ok", o.out, NoSlot)

InitMem ==
    /\ backend \in Backends
    /\ tensors = <<>>
    /\ chain = NoChain
    /\ threads = <<>>
    /\ \E sa \in MemShapes, sb \in MemShapes, cb \in CtxNames :
          LET ta == TensorNew(backend, sa, Ramp(ShapeSize(sa), 1)).tensor
              tb == TensorNew(backend, sb, Ramp(ShapeSize(sb), 1)).tensor
              h1 == HeapAlloc(NoHeap, ta.buffer)
          IN  /\ heap = HeapAlloc(h1, tb.buffer)
              /\ objs = ("a" :> [shape |-> sa, buffer |-> NoHeap.next, ctx |-> "ctx1"])
                         @@ ("b" :> [shape |-> sb, buffer |-> h1.next, ctx |-> cb])
              /\ ctxs = [c \in CtxNames |->
                            ArcNew(ContextNew(backend),
                                   1 + (IF c = "ctx1" THEN 1 ELSE 0)
                                     + (IF c = cb THEN 1 ELSE 0))]
    /\ last = MemCall("none", NoSlot, NoSlot, "None", 0, NoSlot)
    /\ gpu = NoGpu

\* whether another buffer may be allocated in this run
MayAllocate == Running /\ heap.next <= MaxBuffers

\* self.add(&other)
MemAdd(self, other, keep) ==
    /\ MayAllocate
    /\ MemReturn("add", self, other,
                 TensorAdd(backend, Deref(objs[self]), Deref(objs[other])), keep)
    /\ UNCHANGED <<backend, tensors, chainVars, threads, gpuVars>>

\* self.multiply(&other)
MemMultiply(self, other, keep) ==
    /\ MayAllocate
    /\ MemReturn("multiply", self, other,
                 TensorMultiply(backend, Deref(objs[self]), Deref(objs[other])), keep)
    /\ UNCHANGED <<backend, tensors, chainVars, threads, gpuVars>>

\* self.scalar_multiply(scalar)
MemScalarMultiply(self, scalar, keep) ==
    /\ MayAllocate
    /\ MemReturn("scalar_multiply", self, self,
                 TensorScalarMultiply(backend, Deref(objs[self]), scalar), keep)
    /\ UNCHANGED <<backend, tensors, chainVars, threads, gpuVars>>

\* self.matmul(&other)
MemMatmul(self, other, keep) ==
    /\ MayAllocate
    /\ MemReturn("matmul", self, other,
                 TensorMatmul(backend, Deref(objs[self]), Deref(objs[other])), keep)
    /\ UNCHANGED <<backend, tensors, chainVars, threads, gpuVars>>

\* self.matmul_transposed(&other, transpose_a, transpose_b), as the
\* specification has it; the result is wrapped as by the other methods
MemMatmulTransposed(self, other, transpose_a, transpose_b, keep) ==
    /\ MayAllocate
    /\ MemReturn("matmul_transposed", self, other,
                 TensorMatmulTransposed(backend, Deref(objs[self]), Deref(objs[other]),
                                        transpose_a, transpose_b), keep)
    /\ UNCHANGED <<backend, tensors, chainVars, threads, gpuVars>>

\* let v = self.data(): read_buffer copies the contents into a new Vec, which
\* the caller drops after use; no tensor is returned
MemData(self) ==
    /\ MayAllocate
    /\ LET o == BackendOutput(heap, objs[self].buffer, objs[self].buffer,
                              TensorData(backend, Deref(objs[self])))
       IN  /\ heap' = HeapFree(o.heap, o.out)
           /\ last' = MemCall("data", self, self, "Ok", o.out, NoSlot)
    /\ UNCHANGED <<backend, tensors, chainVars, ctxs, objs, threads, gpuVars>>

\* drop(tensor): its fields are dropped, the buffer and the Arc clone
MemDrop(name) ==
    /\ Running
    /\ heap' = HeapFree(heap, objs[name].buffer)
    /\ ctxs' = ArcDrop(ctxs, objs[name].ctx)
    /\ objs' = [s \in DOMAIN objs \ {name} |-> objs[s]]
    /\ last' = MemCall("drop", name, NoSlot, "Ok", 0, NoSlot)
    /\ UNCHANGED <<backend, tensors, chainVars, threads, gpuVars>>

\* drop(ctx): the caller gives up the Arc that B::new() returned
CtxDrop(c) ==
    /\ Running
    /\ ctxs[c].held
    /\ ctxs' = [ArcDrop(ctxs, c) EXCEPT ![c].held = FALSE]
    /\ last' = MemCall("drop_ctx", NoSlot, NoSlot, "Ok", 0, NoSlot)
    /\ UNCHANGED <<backend, tensors, chainVars, heap, objs, threads, gpuVars>>

NextMem ==
    \/ \E self \in DOMAIN objs, other \in DOMAIN objs, keep \in MemKeeps :
          MemAdd(self, other, keep)
    \/ \E self \in DOMAIN objs, other \in DOMAIN objs, keep \in MemKeeps :
          MemMultiply(self, other, keep)
    \/ \E self \in DOMAIN objs, scalar \in Scalars, keep \in MemKeeps :
          MemScalarMultiply(self, scalar, keep)
    \/ \E self \in DOMAIN objs, other \in DOMAIN objs, keep \in MemKeeps :
          MemMatmul(self, other, keep)
    \/ \E self \in DOMAIN objs : MemData(self)
    \/ \E name \in DOMAIN objs : MemDrop(name)
    \/ \E c \in CtxNames : CtxDrop(c)

SpecMem == InitMem /\ [][NextMem]_vars

\* the memory model with the transposed matmul, whose tensor method is not
\* in the source and follows the specification
NextMemTransposed ==
    \/ NextMem
    \/ \E self \in DOMAIN objs, other \in DOMAIN objs,
          transpose_a \in BOOLEAN, transpose_b \in BOOLEAN, keep \in MemKeeps :
          MemMatmulTransposed(self, other, transpose_a, transpose_b, keep)

SpecMemTransposed == InitMem /\ [][NextMemTransposed]_vars

---------------------------------------------------------------------------
(* Threads: Tensor<B> is Send + Sync, so threads may call the methods of   *)
(* shared tensors at once.  A method validates, allocates its output, fills *)
(* it element by element from the inputs and returns; the steps of the      *)
(* threads interleave freely.  Each thread runs one operation.              *)

Threads == {"t1", "t2"}
\* the shapes of the two tensors the threads share: plain matrices that
\* multiply either way round, and a batched one
ThreadShapes == {<<1, 1>>, <<1, 2>>, <<2, 1>>, <<1, 1, 1>>}
ThreadOps == {"add", "multiply", "scalar_multiply", "matmul", "data"}

IdleThread ==
    [pc |-> "idle", op |-> "none", self |-> NoSlot, other |-> NoSlot, scalar |-> 0,
     alone |-> TensorErr("None", ""), status |-> "None", out |-> 0, idx |-> 0]

\* what the operation returns on the tensors as they are now, run alone;
\* data() is given the shape of self
TensorCall(op, self, other, scalar) ==
    CASE op = "add"      -> TensorAdd(backend, Deref(objs[self]), Deref(objs[other]))
      [] op = "multiply" -> TensorMultiply(backend, Deref(objs[self]), Deref(objs[other]))
      [] op = "matmul"   -> TensorMatmul(backend, Deref(objs[self]), Deref(objs[other]))
      [] op = "scalar_multiply" ->
             TensorScalarMultiply(backend, Deref(objs[self]), scalar)
      [] op = "data"     ->
             TensorOk(objs[self].shape, TensorData(backend, Deref(objs[self])))

InitThreads ==
    /\ backend \in Backends
    /\ tensors = <<>>
    /\ chain = NoChain
    /\ \E sa \in ThreadShapes, sb \in ThreadShapes :
          LET ta == TensorNew(backend, sa, Ramp(ShapeSize(sa), 1)).tensor
              tb == TensorNew(backend, sb, Ramp(ShapeSize(sb), 1)).tensor
              h1 == HeapAlloc(NoHeap, ta.buffer)
          IN  /\ heap = HeapAlloc(h1, tb.buffer)
              /\ objs = ("a" :> [shape |-> sa, buffer |-> NoHeap.next, ctx |-> "ctx1"])
                         @@ ("b" :> [shape |-> sb, buffer |-> h1.next, ctx |-> "ctx1"])
    /\ ctxs = [c \in {"ctx1"} |-> ArcNew(ContextNew(backend), Len(Slots) + 1)]
    /\ threads = [t \in Threads |-> IdleThread]
    /\ last = MemCall("none", NoSlot, NoSlot, "None", 0, NoSlot)
    /\ gpu = NoGpu

\* thread t enters a method: the checks of the method run on the shapes; a
\* refused call returns at once
ThreadBegin(t, op, self, other, scalar) ==
    /\ threads[t].pc = "idle"
    /\ LET alone == TensorCall(op, self, other, scalar)
       IN  threads' = [threads EXCEPT ![t] =
               [pc |-> IF alone.status = "Ok" THEN "alloc" ELSE "done",
                op |-> op, self |-> self, other |-> other, scalar |-> scalar,
                alone |-> alone, status |-> alone.status, out |-> 0, idx |-> 0]]
    /\ UNCHANGED <<backend, tensors, last, chainVars, heap, ctxs, objs, gpuVars>>

\* the backend operation allocates its output
ThreadAlloc(t) ==
    /\ threads[t].pc = "alloc"
    /\ LET th == threads[t]
           o  == BackendOutput(heap, objs[th.self].buffer, objs[th.other].buffer,
                               ZeroBuffer(Len(th.alone.tensor.buffer)))
       IN  /\ heap' = o.heap
           /\ threads' = [threads EXCEPT ![t].pc = "write", ![t].out = o.out]
    /\ UNCHANGED <<backend, tensors, last, chainVars, ctxs, objs, gpuVars>>

\* the backend operation computes the next element of its output from the
\* input buffers as they are at this moment, and returns after the last; the
\* tensor method then wraps the buffer: Ok(Self { buffer, shape,
\* ctx: Arc::clone(&self.ctx) }).  data() returns the Vec and clones no Arc
ThreadWrite(t) ==
    /\ threads[t].pc = "write"
    /\ LET th  == threads[t]
           now == TensorCall(th.op, th.self, th.other, th.scalar).tensor.buffer
           n   == Len(heap.bufs[th.out])
       IN  IF th.idx < n
           THEN /\ heap' = [heap EXCEPT !.bufs[th.out][th.idx + 1] = now[th.idx + 1]]
                /\ threads' = [threads EXCEPT ![t].idx = @ + 1]
                /\ ctxs' = ctxs
           ELSE /\ heap' = heap
                /\ threads' = [threads EXCEPT ![t].pc = "done"]
                /\ ctxs' = IF th.op = "data" THEN ctxs
                           ELSE ArcClone(ctxs, objs[th.self].ctx)
    /\ UNCHANGED <<backend, tensors, last, chainVars, objs, gpuVars>>

\* the caller lets go of what the call returned: the result's buffer is
\* freed, and the Arc a result tensor holds is dropped with it
ThreadDrop(t) ==
    /\ threads[t].pc = "done"
    /\ threads[t].status = "Ok"
    /\ LET th == threads[t]
       IN  /\ heap' = HeapFree(heap, th.out)
           /\ ctxs' = IF th.op = "data" THEN ctxs
                      ELSE ArcDrop(ctxs, objs[th.self].ctx)
           /\ threads' = [threads EXCEPT ![t].pc = "dropped"]
    /\ UNCHANGED <<backend, tensors, last, chainVars, objs, gpuVars>>

NextThreads ==
    \/ \E t \in Threads, op \in ThreadOps \ {"scalar_multiply", "data"},
          self \in DOMAIN objs, other \in DOMAIN objs :
          ThreadBegin(t, op, self, other, 0)
    \/ \E t \in Threads, self \in DOMAIN objs, scalar \in Scalars :
          ThreadBegin(t, "scalar_multiply", self, self, scalar)
    \/ \E t \in Threads, self \in DOMAIN objs :
          ThreadBegin(t, "data", self, self, 0)
    \/ \E t \in Threads : ThreadAlloc(t)
    \/ \E t \in Threads : ThreadWrite(t)
    \/ \E t \in Threads : ThreadDrop(t)

SpecThreads == InitThreads /\ [][NextThreads]_vars

---------------------------------------------------------------------------
(* The Metal dispatch.  A MetalBackend operation is a sequence of calls on  *)
(* the device, the command queue, a command buffer and its encoder; the     *)
(* device executes the committed command buffers in commit order while the  *)
(* threads run.  The input buffers of a call are the opaque names "a" and   *)
(* "b"; the output buffers are device buffers by identity.                  *)
(*                                                                          *)
(* usize is 64 bits wide on every target Metal exists on; a usize is the    *)
(* record [hi, lo] standing for hi * 2^32 + lo.  Both parts of every usize  *)
(* of the model are below 2^15, so the partial products below are exact.    *)

\* the usize of a number below 2^32
U(lo) == [hi |-> 0, lo |-> lo]
\* the usize 2^32
TwoPow32 == [hi |-> 1, lo |-> 0]

\* x >= y on usize
UsizeGe(x, y) == x.hi > y.hi \/ (x.hi = y.hi /\ x.lo >= y.lo)

\* x * y on usize: the low 64 bits of the product, and whether the product
\* exceeded them (a panic with overflow checks, a silent wrap without)
UsizeMul(x, y) ==
    [value    |-> [hi |-> x.hi * y.lo + x.lo * y.hi, lo |-> x.lo * y.lo],
     overflow |-> x.hi * y.hi > 0]

\* x as u32: the low 32 bits
UsizeAsU32(x) == x.lo

\* the kernel functions of shaders.metal, in the order new() builds their
\* pipelines, and the MetalContext field each pipeline is stored in
KernelNames ==
    <<"element_wise_add", "element_wise_multiply", "scalar_multiply",
      "matmul", "matmul_tiled", "matmul_batched", "matmul_batched_tiled",
      "matmul_transposed", "matmul_transposed_tiled">>
PipelineFields ==
    <<"add_pipeline", "multiply_pipeline", "scalar_multiply_pipeline",
      "matmul_pipeline", "matmul_tiled_pipeline", "matmul_batched_pipeline",
      "matmul_batched_tiled_pipeline", "matmul_transposed_pipeline",
      "matmul_transposed_tiled_pipeline">>

NoContext == [status |-> "None", msg |-> "", pipelines |-> <<>>]
ContextErr(status, msg) == [status |-> status, msg |-> msg, pipelines |-> <<>>]

\* MetalContext::create_pipeline: fails with MetalError when the library has
\* no such function or the device refuses the pipeline
CreatePipeline(function_name, failing) ==
    IF function_name \in failing THEN "MetalError" ELSE "Ok"

\* MetalBackend::new: device is whether Device::system_default() finds one,
\* compiles whether new_library_with_source succeeds, failing the kernel
\* functions whose pipeline cannot be created
MetalBackendNew(device, compiles, failing) ==
    IF ~device THEN ContextErr("InitError", "No Metal device found")
    ELSE IF ~compiles THEN ContextErr("MetalError", "library")
    ELSE IF \E i \in 1..Len(KernelNames) :
                CreatePipeline(KernelNames[i], failing) # "Ok"
    THEN LET first == CHOOSE i \in 1..Len(KernelNames) :
                         /\ CreatePipeline(KernelNames[i], failing) # "Ok"
                         /\ \A j \in 1..(i - 1) :
                               CreatePipeline(KernelNames[j], failing) = "Ok"
         IN  ContextErr(CreatePipeline(KernelNames[first], failing),
                        KernelNames[first])
    ELSE [status |-> "Ok", msg |-> "",
          pipelines |-> [i \in 1..Len(KernelNames) |->
                            [field |-> PipelineFields[i],
                             function |-> KernelNames[i]]]]

GpuOps ==
    {"element_wise_add", "element_wise_multiply", "scalar_multiply",
     "matmul", "matmul_batched", "matmul_transposed"}
ElementWiseOps == {"element_wise_add", "element_wise_multiply", "scalar_multiply"}

\* the size arguments of a call; a field the operation does not take is 1
GpuArgs(size, batch_size, m, n, k, transpose_a, transpose_b) ==
    [size |-> size, batch_size |-> batch_size, m |-> m, n |-> n, k |-> k,
     transpose_a |-> transpose_a, transpose_b |-> transpose_b]
NoArgs == GpuArgs(U(1), U(1), U(1), U(1), U(1), FALSE, FALSE)

\* the calls of the body of each operation, in source order
MetalSteps(op) ==
    CASE op \in {"element_wise_add", "element_wise_multiply"} ->
             <<"allocate_buffer", "new_command_buffer",
               "new_compute_command_encoder", "set_compute_pipeline_state",
               "set_buffer", "dispatch_threads", "end_encoding", "commit",
               "wait_until_completed", "return">>
      [] op \in {"scalar_multiply", "matmul", "matmul_batched"} ->
             <<"allocate_buffer", "new_command_buffer",
               "new_compute_command_encoder", "set_compute_pipeline_state",
               "set_buffer", "set_bytes", "dispatch_threads", "end_encoding",
               "commit", "wait_until_completed", "return">>
      [] op = "matmul_transposed" ->
             <<"new_command_buffer", "new_compute_command_encoder",
               "new_buffer", "set_compute_pipeline_state", "set_buffer",
               "set_bytes", "dispatch_threads", "end_encoding", "commit",
               "wait_until_completed", "return">>

\* mutant: tiled as soon as one dimension reaches the tile size
UseTiled_AnyDimension(m, n, k) ==
    \/ UsizeGe(m, U(TILE_SIZE))
    \/ UsizeGe(n, U(TILE_SIZE))
    \/ UsizeGe(k, U(TILE_SIZE))

\* use_tiled of MetalBackend::matmul and matmul_batched
UseTiled(m, n, k) ==
    /\ UsizeGe(m, U(TILE_SIZE))
    /\ UsizeGe(n, U(TILE_SIZE))
    /\ UsizeGe(k, U(TILE_SIZE))

\* the condition of MetalBackend::matmul_transposed
UseTiledTransposed(m, n, k) ==
    /\ UsizeGe(m, U(TILE_SIZE))
    /\ UsizeGe(n, U(TILE_SIZE))
    /\ UsizeGe(k, U(TILE_SIZE))

\* the context field handed to set_compute_pipeline_state
ChosenPipeline(op, args) ==
    CASE op = "element_wise_add"      -> "add_pipeline"
      [] op = "element_wise_multiply" -> "multiply_pipeline"
      [] op = "scalar_multiply"       -> "scalar_multiply_pipeline"
      [] op = "matmul" ->
             IF UseTiled(args.m, args.n, args.k)
             THEN "matmul_tiled_pipeline" ELSE "matmul_pipeline"
      [] op = "matmul_batched" ->
             IF UseTiled(args.m, args.n, args.k)
             THEN "matmul_batched_tiled_pipeline" ELSE "matmul_batched_pipeline"
      [] op = "matmul_transposed" ->
             IF UseTiledTransposed(args.m, args.n, args.k)
             THEN "matmul_transposed_tiled_pipeline"
             ELSE "matmul_transposed_pipeline"

\* the element count of the output: size, m * n or batch_size * m * n, with
\* whether a multiplication overflowed
OutputSize(op, args) ==
    CASE op \in ElementWiseOps -> [value |-> args.size, overflow |-> FALSE]
      [] op \in {"matmul", "matmul_transposed"} -> UsizeMul(args.m, args.n)
      [] op = "matmul_batched" ->
             LET bm == UsizeMul(args.batch_size, args.m)
                 bmn == UsizeMul(bm.value, args.n)
             IN  [value |-> bmn.value, overflow |-> bm.overflow \/ bmn.overflow]

\* the byte length of the output: the element count times size_of::<f32>()
OutputBytes(op, args) ==
    LET size  == OutputSize(op, args)
        bytes == UsizeMul(size.value, U(SizeOfF32))
    IN  [value |-> bytes.value, overflow |-> size.overflow \/ bytes.overflow]

\* the set_buffer calls: slot -> buffer, slots counted from 0
BoundBuffers(op, out) ==
    IF op = "scalar_multiply" THEN <<"a", out>> ELSE <<"a", "b", out>>

\* the set_bytes calls: <<slot, value>> in source order
BoundBytes(op, args) ==
    CASE op \in {"element_wise_add", "element_wise_multiply"} -> <<>>
      [] op = "scalar_multiply" -> <<<<2, "scalar">>>>
      [] op = "matmul" ->
             <<<<3, UsizeAsU32(args.m)>>, <<4, UsizeAsU32(args.n)>>,
               <<5, UsizeAsU32(args.k)>>>>
      [] op = "matmul_batched" ->
             <<<<3, UsizeAsU32(args.m)>>, <<4, UsizeAsU32(args.n)>>,
               <<5, UsizeAsU32(args.k)>>, <<6, UsizeAsU32(args.batch_size)>>>>
      [] op = "matmul_transposed" ->
             <<<<3, UsizeAsU32(args.m)>>, <<4, UsizeAsU32(args.n)>>,
               <<5, UsizeAsU32(args.k)>>, <<6, args.transpose_a>>,
               <<7, args.transpose_b>>>>

\* grid_size of an element-wise operation
ElementWiseGrid(size) == <<size, U(1), U(1)>>
\* grid_size of matmul
MatmulGrid(m, n) == <<n, m, U(1)>>
\* grid_size of matmul_batched
MatmulBatchedGrid(batch_size, m, n) == <<n, m, batch_size>>
\* grid_size of matmul_transposed
MatmulTransposedGrid(m, n) == <<n, m, U(1)>>

GridSize(op, args) ==
    CASE op \in ElementWiseOps -> ElementWiseGrid(args.size)
      [] op = "matmul" -> MatmulGrid(args.m, args.n)
      [] op = "matmul_batched" -> MatmulBatchedGrid(args.batch_size, args.m, args.n)
      [] op = "matmul_transposed" -> MatmulTransposedGrid(args.m, args.n)

\* threadgroup_size: 256 wide for the element-wise kernels, a tile otherwise
ThreadgroupSize(op) ==
    IF op \in ElementWiseOps THEN <<256, 1, 1>> ELSE <<TILE_SIZE, TILE_SIZE, 1>>

\* the dimensions the calls are made with: 1, around the tile size, and 2^32
GpuDims == {U(1), U(TILE_SIZE - 1), U(TILE_SIZE), TwoPow32}
GpuBatches == {U(1), U(2)}
GpuThreads == {"t1", "t2"}

\* a tensor of shape [batch,] rows, cols was built: Shape::size(), the product
\* of the dims in order, panics on overflow in a build with overflow checks
\* and wraps in a build without, and Tensor::new takes data of that many
\* elements; the model takes tensors whose buffer has up to 2^32 elements
\* (16 GiB)
Fits(batch, rows, cols, overflow_checks) ==
    LET br  == UsizeMul(batch, rows)
        brc == UsizeMul(br.value, cols)
    IN  /\ (br.overflow \/ brc.overflow) => ~overflow_checks
        /\ UsizeGe(TwoPow32, brc.value)

\* the size arguments Tensor<MetalBackend> passes for operands that were
\* built: a is batch x m x k and b is batch x k x n, whichever way they are
\* stored
GpuCalls(op, dims, batches, overflow_checks) ==
    CASE op \in ElementWiseOps ->
             {GpuArgs(size, U(1), U(1), U(1), U(1), FALSE, FALSE) : size \in dims}
      [] op = "matmul" ->
             {GpuArgs(U(1), U(1), d[1], d[2], d[3], FALSE, FALSE) :
                 d \in {e \in dims \X dims \X dims :
                           /\ Fits(U(1), e[1], e[3], overflow_checks)
                           /\ Fits(U(1), e[3], e[2], overflow_checks)}}
      [] op = "matmul_batched" ->
             {GpuArgs(U(1), d[4], d[1], d[2], d[3], FALSE, FALSE) :
                 d \in {e \in dims \X dims \X dims \X batches :
                           /\ Fits(e[4], e[1], e[3], overflow_checks)
                           /\ Fits(e[4], e[3], e[2], overflow_checks)}}
      [] op = "matmul_transposed" ->
             {GpuArgs(U(1), U(1), d[1], d[2], d[3], d[4], d[5]) :
                 d \in {e \in dims \X dims \X dims \X BOOLEAN \X BOOLEAN :
                           /\ Fits(U(1), e[1], e[3], overflow_checks)
                           /\ Fits(U(1), e[3], e[2], overflow_checks)}}

\* a thread outside any backend call
IdleFrame ==
    [pc |-> 0, op |-> "none", args |-> NoArgs, cb |-> 0, out |-> 0,
     status |-> "None", calls |-> 0, held |-> {}]

\* command_queue.new_command_buffer()
NewCommandBuffer(t) ==
    [owner |-> t, state |-> "new", pipeline |-> "none", buffers |-> <<>>,
     bytes |-> <<>>, grid |-> <<>>, threadgroup |-> <<>>]

\* ctx.device.new_buffer(length, StorageModeShared)
NewBuffer(length) == [length |-> length, cmd |-> 0]

\* the call thread t is about to make, "none" outside an operation
StepOf(t) ==
    LET f == gpu.frames[t] IN
    IF f.pc = 0 THEN "none" ELSE MetalSteps(f.op)[f.pc]

\* the calls thread t has made in the operation it is in
StepsDone(t) ==
    LET f == gpu.frames[t] IN
    IF f.pc = 0 THEN <<>> ELSE SubSeq(MetalSteps(f.op), 1, f.pc - 1)

\* mutant: the wait returns at once
WaitUntilCompleted_NoWait(cmd) == TRUE

\* command_buffer.wait_until_completed() returns
WaitUntilCompleted(cmd) == cmd.state = "completed"

InitGpuWith(dims, batches, limit) ==
    /\ backend = "Metal"
    /\ tensors = <<>>
    /\ chain = NoChain
    /\ heap = NoHeap /\ ctxs = <<>> /\ objs = <<>> /\ threads = <<>>
    /\ last = MemCall("none", NoSlot, NoSlot, "None", 0, NoSlot)
    /\ \E overflow_checks \in BOOLEAN :
          gpu = [ctx |-> NoContext,
                 env |-> [device |-> FALSE, compiles |-> FALSE, failing |-> {}],
                 overflow_checks |-> overflow_checks,
                 dims |-> dims, batches |-> batches, limit |-> limit,
                 frames |-> [t \in DOMAIN limit |-> IdleFrame],
                 cmds |-> <<>>, queue |-> <<>>, bufs |-> <<>>]

\* B::new() of the program, in whatever environment it runs
GpuContextNew ==
    /\ gpu.ctx.status = "None"
    /\ \E device \in BOOLEAN, compiles \in BOOLEAN,
          failing \in SUBSET {KernelNames[i] : i \in 1..Len(KernelNames)} :
          gpu' = [gpu EXCEPT
                    !.ctx = MetalBackendNew(device, compiles, failing),
                    !.env = [device |-> device, compiles |-> compiles,
                             failing |-> failing]]
    /\ UNCHANGED <<backend, tensors, last, chainVars, memVars>>

\* thread t may enter a backend call
MayCall(t) ==
    /\ gpu.ctx.status = "Ok"
    /\ gpu.frames[t].pc = 0
    /\ gpu.frames[t].status # "Panic"
    /\ gpu.frames[t].calls < gpu.limit[t]

\* thread t enters MetalBackend::op with the size arguments of some operands
GpuCall(t) ==
    /\ MayCall(t)
    /\ \E op \in GpuOps :
          \E args \in GpuCalls(op, gpu.dims, gpu.batches, gpu.overflow_checks) :
             gpu' = [gpu EXCEPT !.frames[t] =
                       [@ EXCEPT !.pc = 1, !.op = op, !.args = args, !.cb = 0,
                                 !.out = 0, !.status = "Running"]]
    /\ UNCHANGED <<backend, tensors, last, chainVars, memVars>>

\* MetalBackend::synchronize
GpuSynchronize(t) ==
    /\ MayCall(t)
    /\ gpu' = [gpu EXCEPT !.frames[t] =
                 [@ EXCEPT !.status = "Ok", !.calls = @ + 1]]
    /\ UNCHANGED <<backend, tensors, last, chainVars, memVars>>

\* the output buffer is allocated; a multiplication that overflows panics
\* in a build with overflow checks (the command buffer, if any, unwinds)
StepAllocate(t) ==
    /\ StepOf(t) \in {"allocate_buffer", "new_buffer"}
    /\ LET f     == gpu.frames[t]
           bytes == OutputBytes(f.op, f.args)
       IN  IF bytes.overflow /\ gpu.overflow_checks
           THEN gpu' = [gpu EXCEPT
                   !.frames[t] = [@ EXCEPT !.pc = 0, !.status = "Panic"],
                   !.cmds = [i \in DOMAIN gpu.cmds |->
                               IF i = f.cb
                               THEN [NewCommandBuffer(t) EXCEPT !.state = "released"]
                               ELSE gpu.cmds[i]]]
           ELSE gpu' = [gpu EXCEPT
                   !.bufs = Append(@, NewBuffer(bytes.value)),
                   !.frames[t] = [@ EXCEPT !.pc = @ + 1,
                                           !.out = Len(gpu.bufs) + 1]]
    /\ UNCHANGED <<backend, tensors, last, chainVars, memVars>>

StepNewCommandBuffer(t) ==
    /\ StepOf(t) = "new_command_buffer"
    /\ gpu' = [gpu EXCEPT
                 !.cmds = Append(@, NewCommandBuffer(t)),
                 !.frames[t] = [@ EXCEPT !.pc = @ + 1, !.cb = Len(gpu.cmds) + 1]]
    /\ UNCHANGED <<backend, tensors, last, chainVars, memVars>>

StepNewEncoder(t) ==
    /\ StepOf(t) = "new_compute_command_encoder"
    /\ gpu' = [gpu EXCEPT
                 !.cmds[gpu.frames[t].cb].state = "encoding",
                 !.frames[t].pc = @ + 1]
    /\ UNCHANGED <<backend, tensors, last, chainVars, memVars>>

StepSetPipeline(t) ==
    /\ StepOf(t) = "set_compute_pipeline_state"
    /\ LET f == gpu.frames[t] IN
       gpu' = [gpu EXCEPT
                 !.cmds[f.cb].pipeline = ChosenPipeline(f.op, f.args),
                 !.frames[t].pc = @ + 1]
    /\ UNCHANGED <<backend, tensors, last, chainVars, memVars>>

StepSetBuffer(t) ==
    /\ StepOf(t) = "set_buffer"
    /\ LET f == gpu.frames[t] IN
       gpu' = [gpu EXCEPT
                 !.cmds[f.cb].buffers = BoundBuffers(f.op, f.out),
                 !.bufs[f.out].cmd = f.cb,
                 !.frames[t].pc = @ + 1]
    /\ UNCHANGED <<backend, tensors, last, chainVars, memVars>>

StepSetBytes(t) ==
    /\ StepOf(t) = "set_bytes"
    /\ LET f == gpu.frames[t] IN
       gpu' = [gpu EXCEPT
                 !.cmds[f.cb].bytes = BoundBytes(f.op, f.args),
                 !.frames[t].pc = @ + 1]
    /\ UNCHANGED <<backend, tensors, last, chainVars, memVars>>

StepDispatch(t) ==
    /\ StepOf(t) = "dispatch_threads"
    /\ LET f == gpu.frames[t] IN
       gpu' = [gpu EXCEPT
                 !.cmds[f.cb].grid = GridSize(f.op, f.args),
                 !.cmds[f.cb].threadgroup = ThreadgroupSize(f.op),
                 !.frames[t].pc = @ + 1]
    /\ UNCHANGED <<backend, tensors, last, chainVars, memVars>>

StepEndEncoding(t) ==
    /\ StepOf(t) = "end_encoding"
    /\ gpu' = [gpu EXCEPT
                 !.cmds[gpu.frames[t].cb].state = "ended",
                 !.frames[t].pc = @ + 1]
    /\ UNCHANGED <<backend, tensors, last, chainVars, memVars>>

\* command_buffer.commit(): the command buffer joins the queue of the device
StepCommit(t) ==
    /\ StepOf(t) = "commit"
    /\ LET cb == gpu.frames[t].cb IN
       gpu' = [gpu EXCEPT
                 !.cmds[cb].state = "committed",
                 !.queue = Append(@, cb),
                 !.frames[t].pc = @ + 1]
    /\ UNCHANGED <<backend, tensors, last, chainVars, memVars>>

\* the device finishes the oldest committed command buffer
DeviceComplete ==
    /\ gpu.queue # <<>>
    /\ gpu' = [gpu EXCEPT
                 !.cmds[Head(gpu.queue)].state = "completed",
                 !.queue = Tail(@)]
    /\ UNCHANGED <<backend, tensors, last, chainVars, memVars>>

\* command_buffer.wait_until_completed(): the thread goes on once the device
\* has finished the command buffer
StepWait(t) ==
    /\ StepOf(t) = "wait_until_completed"
    /\ WaitUntilCompleted(gpu.cmds[gpu.frames[t].cb])
    /\ gpu' = [gpu EXCEPT !.frames[t].pc = @ + 1]
    /\ UNCHANGED <<backend, tensors, last, chainVars, memVars>>

\* Ok(result_buffer): the caller holds the output, the command buffer and
\* its encoder go out of scope
StepReturn(t) ==
    /\ StepOf(t) = "return"
    /\ LET f == gpu.frames[t] IN
       gpu' = [gpu EXCEPT
                 !.cmds[f.cb] = [NewCommandBuffer(t) EXCEPT !.state = "released"],
                 !.frames[t] = [@ EXCEPT !.pc = 0, !.op = "none", !.args = NoArgs,
                                         !.status = "Ok", !.calls = @ + 1,
                                         !.held = @ \cup {f.out}]]
    /\ UNCHANGED <<backend, tensors, last, chainVars, memVars>>

NextGpu ==
    \/ GpuContextNew
    \/ \E t \in DOMAIN gpu.frames : GpuCall(t)
    \/ \E t \in DOMAIN gpu.frames : GpuSynchronize(t)
    \/ \E t \in DOMAIN gpu.frames : StepAllocate(t)
    \/ \E t \in DOMAIN gpu.frames : StepNewCommandBuffer(t)
    \/ \E t \in DOMAIN gpu.frames : StepNewEncoder(t)
    \/ \E t \in DOMAIN gpu.frames : StepSetPipeline(t)
    \/ \E t \in DOMAIN gpu.frames : StepSetBuffer(t)
    \/ \E t \in DOMAIN gpu.frames : StepSetBytes(t)
    \/ \E t \in DOMAIN gpu.frames : StepDispatch(t)
    \/ \E t \in DOMAIN gpu.frames : StepEndEncoding(t)
    \/ \E t \in DOMAIN gpu.frames : StepCommit(t)
    \/ DeviceComplete
    \/ \E t \in DOMAIN gpu.frames : StepWait(t)
    \/ \E t \in DOMAIN gpu.frames : StepReturn(t)

\* one thread, calls of every dimension
InitGpu == InitGpuWith(GpuDims, GpuBatches, [t \in {"t1"} |-> MaxGpuCalls - 1])
SpecGpu == InitGpu /\ [][NextGpu]_vars

\* two threads sharing the context, small calls: the first thread makes
\* calls one after the other while the second makes its own
InitGpuThreads ==
    InitGpuWith({U(1)}, {U(2)},
                [t \in GpuThreads |->
                    IF t = "t1" THEN MaxGpuCalls ELSE MaxGpuCalls - 1])
SpecGpuThreads == InitGpuThreads /\ [][NextGpu]_vars

---------------------------------------------------------------------------
(* The transposed calls of the examples: matmul_transposed with either    *)
(* flag, and the product of two transpose wrappers.                         *)

\* the record of a transposed call
TransposedCall(op, self, other, transpose_a, transpose_b, res) ==
    [op |-> op, self |-> self, other |-> other,
     transpose_a |-> transpose_a, transpose_b |-> transpose_b,
     status |-> res.status, msg |-> res.msg, result |-> res.tensor]

InitTransposed ==
    /\ backend \in Backends
    /\ tensors \in {("a" :> ta) @@ ("b" :> tb) :
                       ta \in InitTensors(backend), tb \in InitTensors(backend)}
    /\ last = TransposedCall("none", NoSlot, NoSlot, FALSE, FALSE, TensorErr("None", ""))
    /\ chain = NoChain
    /\ NoMemory

\* self.matmul_transposed(&other, transpose_a, transpose_b)
MatmulTransposedCall(self, other, transpose_a, transpose_b) ==
    /\ Running
    /\ last' = TransposedCall("matmul_transposed", self, other, transpose_a, transpose_b,
                   TensorMatmulTransposed(backend, tensors[self], tensors[other],
                                          transpose_a, transpose_b))
    /\ UNCHANGED <<backend, tensors, chainVars, memVars, gpuVars>>

\* &self.t() * &other.t()
TransposedMulCall(self, other) ==
    /\ Running
    /\ last' = TransposedCall("mul", self, other, TRUE, TRUE,
                   TransposedTensorMul(backend, TensorT(tensors[self]),
                                       TensorT(tensors[other])))
    /\ UNCHANGED <<backend, tensors, chainVars, memVars, gpuVars>>

NextTransposed ==
    \/ \E self \in DOMAIN tensors, other \in DOMAIN tensors,
          transpose_a \in BOOLEAN, transpose_b \in BOOLEAN :
          MatmulTransposedCall(self, other, transpose_a, transpose_b)
    \/ \E self \in DOMAIN tensors, other \in DOMAIN tensors :
          TransposedMulCall(self, other)

SpecTransposed == InitTransposed /\ [][NextTransposed]_vars

---------------------------------------------------------------------------
(* Vocabulary of the claims *)

\* the operands of the last call
SelfT == tensors[last.self]
OtherT == tensors[last.other]
\* what data() returns for a tensor
DataOf(t) == TensorData(backend, t)
\* the tensors the program holds: the bound ones and the one just returned
LiveTensors ==
    {tensors[s] : s \in DOMAIN tensors}
        \cup (IF last.status = "Ok" /\ last.op # "data" THEN {last.result} ELSE {})

Rank(t) == Len(t.shape)
IsPlain(t) == Rank(t) = 2
IsBatched(t) == Rank(t) >= 3
\* rows and columns of a plain or 3-D batched operand, read off its dims
RowsOf(t) == IF Rank(t) = 2 THEN t.shape[1] ELSE t.shape[2]
ColsOf(t) == IF Rank(t) = 2 THEN t.shape[2] ELSE t.shape[3]
\* dims compared by rank and element by element
SameDims(s1, s2) == Len(s1) = Len(s2) /\ \A i \in 1..Len(s1) : s1[i] = s2[i]

\* sum over kk in lo..(k-1) of a[i*k+kk] * b[kk*n+j], row-major
RECURSIVE RefDot(_, _, _, _, _, _, _)
RefDot(a, b, i, j, k, n, lo) ==
    IF lo >= k THEN 0
    ELSE a[i * k + lo + 1] * b[lo * n + j + 1] + RefDot(a, b, i, j, k, n, lo + 1)

\* one step of a chain applied directly to a tensor
ApplyStep(t, step) ==
    CASE step.op = "matmul"   -> TensorMatmul(backend, t, tensors[step.other])
      [] step.op = "add"      -> TensorAdd(backend, t, tensors[step.other])
      [] step.op = "multiply" -> TensorMultiply(backend, t, tensors[step.other])
      [] step.op = "scalar_multiply" -> TensorScalarMultiply(backend, t, step.scalar)

\* the steps applied one after another to start, each applied to the tensor
\* the one before returned, stopping at the first error
RECURSIVE Direct(_, _)
Direct(start, steps) ==
    IF steps = <<>> THEN TensorOk(start.shape, start.buffer)
    ELSE LET prev == Direct(start, SubSeq(steps, 1, Len(steps) - 1))
         IN  IF prev.status # "Ok" THEN prev
             ELSE ApplyStep(prev.tensor, steps[Len(steps)])

\* the index of the first step of the chain that fails when applied directly
FirstFailure(start, steps) ==
    {i \in 1..Len(steps) :
        /\ Direct(start, SubSeq(steps, 1, i)).status # "Ok"
        /\ \A j \in 1..(i - 1) : Direct(start, SubSeq(steps, 1, j)).status = "Ok"}

\* the buffers a thread reads and the buffers it writes at this moment
ReadsOf(t) ==
    IF threads[t].pc \in {"alloc", "write"}
    THEN {objs[threads[t].self].buffer, objs[threads[t].other].buffer}
    ELSE {}
WritesOf(t) == IF threads[t].pc = "write" THEN {threads[t].out} ELSE {}

---------------------------------------------------------------------------
(* Claims *)

\* C1: in every reachable state every live tensor's backing buffer holds
\* exactly shape.size() elements, the product of its dims.
C1_BufferLenIsShapeSize ==
    \A t \in LiveTensors : Len(t.buffer) = ShapeSize(t.shape)

\* C1 witness: a batched matmul has returned a tensor next to two bound ones
C1_Witness ==
    /\ last.op = "matmul" /\ last.status = "Ok"
    /\ Len(last.result.shape) = 3
    /\ DOMAIN tensors = SlotNames

\* C2: Tensor::new fails with ShapeMismatch iff data.len() != shape.size();
\* otherwise it returns a tensor carrying the shape it was given.
C2_NewShapeMismatchIff ==
    last.op = "new" =>
        /\ (last.status = "ShapeMismatch") <=> (Len(last.data) # ShapeSize(last.shape))
        /\ Len(last.data) = ShapeSize(last.shape) =>
               /\ last.status = "Ok"
               /\ last.result.shape = last.shape
        /\ last.status # "Ok" => last.result = NoTensor

\* C2 witness: shape [2,2] with 3 data elements was refused
C2_Witness ==
    /\ last.op = "new" /\ last.shape = <<2, 2>> /\ Len(last.data) = 3
    /\ last.status = "ShapeMismatch"

\* C3: add and multiply fail with ShapeMismatch whenever the operands' shapes
\* differ (by rank or in any dim), also when their sizes are equal; on equal
\* shapes they return a tensor of that shape.
C3_ElementwiseShapeCheck ==
    last.op \in {"add", "multiply"} =>
        IF SameDims(SelfT.shape, OtherT.shape)
        THEN last.status = "Ok" /\ SameDims(last.result.shape, SelfT.shape)
        ELSE last.status = "ShapeMismatch" /\ last.result = NoTensor

\* C3 witness: operands of equal size and different shapes were refused
C3_Witness ==
    /\ last.op \in {"add", "multiply"} /\ last.status = "ShapeMismatch"
    /\ SelfT.shape # OtherT.shape
    /\ ShapeSize(SelfT.shape) = ShapeSize(OtherT.shape)
    /\ ShapeSize(SelfT.shape) > 1

\* C4 (as claimed): matmul of a batched operand (rank >= 3) with a plain one
\* (rank 2), in either order, or of two batched operands with different batch
\* counts, returns ShapeMismatch and no tensor.
C4_MixedOrUnequalBatchFails ==
    last.op = "matmul" =>
        LET mixed   == \/ IsBatched(SelfT) /\ IsPlain(OtherT)
                       \/ IsPlain(SelfT) /\ IsBatched(OtherT)
            unequal == /\ IsBatched(SelfT) /\ IsBatched(OtherT)
                       /\ SelfT.shape[1] # OtherT.shape[1]
        IN  (mixed \/ unequal) =>
                last.status = "ShapeMismatch" /\ last.result = NoTensor

\* C4, operands of rank 2 or 3 only: there the claim holds
C4_UpToRank3 ==
    (last.op = "matmul" /\ Rank(SelfT) <= 3 /\ Rank(OtherT) <= 3) =>
        LET mixed   == Rank(SelfT) + Rank(OtherT) = 5
            unequal == /\ Rank(SelfT) = 3 /\ Rank(OtherT) = 3
                       /\ SelfT.shape[1] # OtherT.shape[1]
        IN  (mixed \/ unequal) =>
                last.status = "ShapeMismatch" /\ last.result = NoTensor

\* C5: matmul takes (m, k1) from self and (k2, n) from other and returns
\* ShapeMismatch whenever k1 # k2, for plain and batched operands alike
\* (operands of rank 2 or 3, the ranks matrix_dims gives dims for).
C5_InnerDimMismatchFails ==
    ( /\ last.op = "matmul"
      /\ Rank(SelfT) \in {2, 3} /\ Rank(OtherT) \in {2, 3}
      /\ ColsOf(SelfT) # RowsOf(OtherT) ) =>
        last.status = "ShapeMismatch" /\ last.result = NoTensor

\* C5 witness: two batched operands of one batch count, inner dims differ
C5_Witness ==
    /\ last.op = "matmul" /\ last.status = "ShapeMismatch"
    /\ Rank(SelfT) = 3 /\ Rank(OtherT) = 3
    /\ SelfT.shape[1] = OtherT.shape[1]
    /\ ColsOf(SelfT) # RowsOf(OtherT)

\* C6: matmul returns ShapeMismatch whenever self or other has rank below 2,
\* whatever the other operand is.
C6_RankBelow2Fails ==
    (last.op = "matmul" /\ (Rank(SelfT) < 2 \/ Rank(OtherT) < 2)) =>
        last.status = "ShapeMismatch" /\ last.result = NoTensor

\* C6 witness: a rank-1 operand against an operand of rank 4 was refused
C6_Witness ==
    /\ last.op = "matmul" /\ last.status = "ShapeMismatch"
    /\ Rank(SelfT) = 4 /\ Rank(OtherT) = 1

\* C7: on the CPU backend, for plain a of shape [m,k] and b of shape [k,n],
\* a.matmul(b) succeeds with shape [m,n] and data[i*n+j] equal to the sum
\* over kk of a[i*k+kk] * b[kk*n+j]; [[1,2,3],[4,5,6]] x [[7,8],[9,10],[11,12]]
\* gives [58,64,139,154].
C7_CpuMatmulIsReference ==
    /\ CPUMatmul(<<1, 2, 3, 4, 5, 6>>, <<7, 8, 9, 10, 11, 12>>, 2, 2, 3)
           = BufOk(<<58, 64, 139, 154>>)
    /\ ( /\ backend = "CPU" /\ last.op = "matmul"
          /\ IsPlain(SelfT) /\ IsPlain(OtherT)
          /\ ColsOf(SelfT) = RowsOf(OtherT) ) =>
            LET m == RowsOf(SelfT)
                k == ColsOf(SelfT)
                n == ColsOf(OtherT)
                a == DataOf(SelfT)
                b == DataOf(OtherT)
                c == DataOf(last.result)
            IN  /\ last.status = "Ok"
                /\ last.result.shape = <<m, n>>
                /\ Len(c) = m * n
                /\ \A i \in 0..(m - 1), j \in 0..(n - 1) :
                       c[i * n + j + 1] = RefDot(a, b, i, j, k, n, 0)

\* C7 witness: [[1,2],[3,4]] x [[1,2],[3,4]] = [[7,10],[15,22]] on the CPU
C7_Witness ==
    /\ backend = "CPU" /\ last.op = "matmul" /\ last.status = "Ok"
    /\ SelfT.shape = <<2, 2>> /\ OtherT.shape = <<2, 2>>
    /\ SelfT.buffer = <<1, 2, 3, 4>> /\ OtherT.buffer = <<1, 2, 3, 4>>
    /\ last.result.buffer = <<7, 10, 15, 22>>

\* C8: on the CPU backend, for a of shape [B,m,k] and b of shape [B,k,n],
\* a.matmul(b) has shape [B,m,n] and its slice [t*m*n, (t+1)*m*n) is the
\* plain matmul of a's slice at t*m*k and b's slice at t*k*n, for every t.
C8_CpuBatchedIsPerBatchMatmul ==
    ( /\ backend = "CPU" /\ last.op = "matmul"
      /\ Rank(SelfT) = 3 /\ Rank(OtherT) = 3
      /\ SelfT.shape[1] = OtherT.shape[1]
      /\ ColsOf(SelfT) = RowsOf(OtherT) ) =>
        LET B == SelfT.shape[1]
            m == RowsOf(SelfT)
            k == ColsOf(SelfT)
            n == ColsOf(OtherT)
            a == DataOf(SelfT)
            b == DataOf(OtherT)
            c == DataOf(last.result)
        IN  /\ last.status = "Ok"
            /\ last.result.shape = <<B, m, n>>
            /\ Len(c) = B * m * n
            /\ \A t \in 0..(B - 1) :
                   BufOk(SubSeq(c, t * m * n + 1, (t + 1) * m * n))
                     = CPUMatmul(SubSeq(a, t * m * k + 1, (t + 1) * m * k),
                                 SubSeq(b, t * k * n + 1, (t + 1) * k * n), m, n, k)

\* C8 witness: two batches whose inputs differ were multiplied on the CPU
C8_Witness ==
    /\ backend = "CPU" /\ last.op = "matmul" /\ last.status = "Ok"
    /\ Rank(SelfT) = 3 /\ SelfT.shape[1] = 2
    /\ SelfT.buffer = <<1, 2>> /\ OtherT.buffer = <<1, 2>>
    /\ last.result.buffer = <<1, 4>>

\* C9: for a and b of equal shape, a.add(b).data() has the length of
\* a.data() and element i equal to a.data()[i] + b.data()[i], and
\* a.multiply(b).data()[i] equals a.data()[i] * b.data()[i].
C9_ElementwiseData ==
    ( /\ last.op \in {"add", "multiply"}
      /\ SelfT.shape = OtherT.shape ) =>
        LET a == DataOf(SelfT)
            b == DataOf(OtherT)
            c == DataOf(last.result)
        IN  /\ last.status = "Ok"
            /\ Len(c) = Len(a)
            /\ \A i \in 1..Len(a) :
                   c[i] = IF last.op = "add" THEN a[i] + b[i] ELSE a[i] * b[i]

\* C9 witness: two different buffers of several elements were added
C9_Witness ==
    /\ last.op = "add" /\ last.status = "Ok"
    /\ Len(SelfT.buffer) >= 2
    /\ SelfT.buffer # OtherT.buffer
    /\ \E i \in 1..Len(SelfT.buffer) : OtherT.buffer[i] # 0 /\ SelfT.buffer[i] # 0

\* C10: scalar_multiply always succeeds, keeps the shape and multiplies every
\* element by the scalar; unary minus is scalar_multiply(-1), so [1,2,3,4]
\* becomes [-1,-2,-3,-4].
C10_ScalarMultiplyData ==
    last.op \in {"scalar_multiply", "neg"} =>
        LET s == IF last.op = "neg" THEN -1 ELSE last.scalar
            a == DataOf(SelfT)
            c == DataOf(last.result)
        IN  /\ last.status = "Ok"
            /\ last.result.shape = SelfT.shape
            /\ Len(c) = Len(a)
            /\ \A i \in 1..Len(a) : c[i] = a[i] * s

\* C10 witness: [1,2,3,4] was negated to [-1,-2,-3,-4]
C10_Witness ==
    /\ last.op = "neg" /\ last.status = "Ok"
    /\ DataOf(SelfT) = <<1, 2, 3, 4>>
    /\ DataOf(last.result) = <<-1, -2, -3, -4>>

\* C11: a tensor built by Tensor::new from data of shape.size() elements gives
\* back exactly that data from data() (same length, same elements, same
\* order), on both backends, and the sequence a data() call returned is the
\* one a further data() call on the same tensor returns.
C11_RoundTrip ==
    /\ (last.op = "new" /\ last.status = "Ok") =>
           /\ DataOf(last.result) = last.data
           /\ DataOf(tensors[last.bound]) = last.data
    /\ last.op = "data" =>
           last.status = "Ok" /\ last.read = DataOf(SelfT)

\* C11 witness: data() of a Metal tensor built from [1,2,3,4] returned [1,2,3,4]
C11_Witness ==
    /\ backend = "Metal" /\ last.op = "data" /\ last.status = "Ok"
    /\ tensors[last.self].shape = <<2, 2>>
    /\ last.read = <<1, 2, 3, 4>>

\* the tensor operations that C12 names
OperandOps == {"add", "multiply", "scalar_multiply", "matmul", "data"}

\* C12: no add, multiply, scalar_multiply, matmul or data call, succeeding or
\* failing, changes the shape or the contents of the buffer of a tensor the
\* program holds (self and other among them): every tensor keeps its shape,
\* its buffer and its context, and the buffer holds what it held; a failing
\* call creates no tensor and leaves every buffer as it was.
C12_OperandsUnchanged ==
    [][ last'.op \in OperandOps =>
          /\ \A s \in DOMAIN objs :
                 /\ s \in DOMAIN objs' /\ objs'[s] = objs[s]
                 /\ objs[s].buffer \in DOMAIN heap'.bufs
                 /\ heap'.bufs[objs[s].buffer] = heap.bufs[objs[s].buffer]
          /\ last'.status # "Ok" =>
                 objs' = objs /\ heap' = heap /\ last'.bound = NoSlot ]_vars

\* C12 witness: a.add(&a) on a = [1,2] returned [2,4] in a buffer of its own,
\* bound next to a, which still holds [1,2]
C12_Witness ==
    /\ last.op = "add" /\ last.status = "Ok"
    /\ last.self = "a" /\ last.other = "a" /\ last.bound = "c"
    /\ heap.bufs[objs["c"].buffer] = <<2, 4>>
    /\ heap.bufs[objs["a"].buffer] = <<1, 2>>

\* a call that C12 names was refused and returned an error
C12_FailureReached ==
    /\ last.op = "matmul" /\ last.status = "ShapeMismatch"
    /\ DOMAIN objs = {"a", "b"}

\* C13 (as claimed): a shape of rank other than 2 or 3 never aborts the
\* process: matmul on an operand of rank 4 or more, which passes the rank
\* check and reaches matrix_dims, returns an error value and the program
\* runs on.
C13_InvalidRankIsError ==
    ( /\ last.op = "matmul"
      /\ Rank(SelfT) >= 2 /\ Rank(OtherT) >= 2
      /\ (Rank(SelfT) >= 4 \/ Rank(OtherT) >= 4) ) =>
        /\ last.status \in {"ShapeMismatch", "BufferError", "MetalError", "InitError"}
        /\ Running

\* C14: a Tensor::new, add, multiply or matmul call that returns ShapeMismatch
\* has invoked no backend operation, and every backend operation invoked by
\* any call was handed a data slice or buffers of exactly the lengths its
\* size arguments stand for; a call that returned a tensor invoked one.
C14_ValidationBeforeBackend ==
    /\ last.status = "ShapeMismatch" => last.calls = <<>>
    /\ \A i \in 1..Len(last.calls) : last.calls[i].lens = last.calls[i].expect
    /\ (last.status = "Ok" /\ last.op # "none") => Len(last.calls) = 1

\* C14 witness: add of [1,2] and [2,1], equal in size, was refused
C14_Witness ==
    /\ last.op = "add" /\ last.status = "ShapeMismatch"
    /\ SelfT.shape = <<1, 2>> /\ OtherT.shape = <<2, 1>>
    /\ last.calls = <<>>

\* C15 (as claimed): on every backend allocate_buffer(ctx, size, Some(data))
\* fails with BufferError whenever data.len() != size, and
\* allocate_buffer(ctx, size, None) returns size elements, all zero.
C15_AllocateChecksData ==
    last.op = "allocate_buffer" =>
        IF last.hasData
        THEN Len(last.data) # last.size => last.status = "BufferError"
        ELSE /\ last.status = "Ok"
             /\ ReadBuffer(backend, last.buffer) = ZeroBuffer(last.size)

\* C15 on the Metal backend, and without data on both: there the claim holds
C15_MetalOrNoData ==
    (last.op = "allocate_buffer" /\ (backend = "Metal" \/ ~last.hasData)) =>
        IF last.hasData
        THEN (Len(last.data) # last.size) <=> (last.status = "BufferError")
        ELSE /\ last.status = "Ok"
             /\ ReadBuffer(backend, last.buffer) = ZeroBuffer(last.size)

\* C16 (as claimed): on every backend element_wise_add and
\* element_wise_multiply fail with BufferError unless len(a) = len(b) = size,
\* scalar_multiply fails with BufferError unless len(input) = size, and a
\* successful call returns a buffer of exactly size elements.
C16_BackendChecksLengths ==
    /\ last.op \in {"element_wise_add", "element_wise_multiply"} =>
          IF Len(last.a) = last.size /\ Len(last.b) = last.size
          THEN last.status = "Ok" /\ Len(ReadBuffer(backend, last.buffer)) = last.size
          ELSE last.status = "BufferError"
    /\ last.op = "scalar_multiply" =>
          IF Len(last.a) = last.size
          THEN last.status = "Ok" /\ Len(ReadBuffer(backend, last.buffer)) = last.size
          ELSE last.status = "BufferError"

\* C16 on the CPU backend: there the claim holds
C16_OnCpu ==
    backend = "CPU" => C16_BackendChecksLengths

\* C17: a chain step taken on a held error leaves that error as it is, runs
\* no tensor operation and invokes no backend operation; the result held,
\* which finish() returns, is the error of the first failing step, or, when
\* no step fails, the tensor the same operations return applied directly one
\* after another.
C17_ChainShortCircuits ==
    chain.active =>
        /\ (last.op \in {"matmul", "add", "multiply", "scalar_multiply"}
                /\ last.before.status # "Ok") =>
               /\ chain.held = last.before
               /\ ~last.invoked /\ last.calls = <<>>
        /\ chain.held = Direct(chain.start, chain.steps)
        /\ \A i \in FirstFailure(chain.start, chain.steps) :
               chain.held = Direct(chain.start, SubSeq(chain.steps, 1, i))
        /\ last.op = "finish" =>
               /\ last.status = chain.held.status /\ last.msg = chain.held.msg
               /\ last.result = chain.held.tensor

\* C17 witness: a chain whose matmul step failed on the inner dimensions took
\* an add step and was finished: finish() returned the matmul error
C17_Witness ==
    /\ chain.active /\ chain.finished /\ last.op = "finish"
    /\ Len(chain.steps) = 2
    /\ chain.steps[1].op = "matmul" /\ chain.steps[2].op = "add"
    /\ tensors[chain.steps[2].other].shape # chain.start.shape
    /\ last.status = "ShapeMismatch" /\ last.msg = "matmul_inner"

\* the numeric operations that C18 names
NumericOps == {"add", "multiply", "scalar_multiply", "matmul", "matmul_transposed"}

\* C18: the buffer of the tensor an add, multiply, scalar_multiply, matmul
\* (plain or batched) or transposed matmul (plain or batched) returns was
\* allocated during that call: it is no buffer that existed before the call,
\* so not the buffer of an input, of an earlier result or of another live
\* tensor, also when self and other are one tensor; live tensors never share
\* a buffer.
C18_OutputBufferIsFresh ==
    /\ (last.op \in NumericOps /\ last.status = "Ok") =>
           /\ last.out \notin last.before
           /\ \A s \in DOMAIN objs \ {last.bound} : objs[s].buffer # last.out
           /\ last.bound # NoSlot => objs[last.bound].buffer = last.out
    /\ \A s \in DOMAIN objs, t \in DOMAIN objs :
           s # t => objs[s].buffer # objs[t].buffer
    /\ \A s \in DOMAIN objs : objs[s].buffer \in DOMAIN heap.bufs

\* C18 witness: c, the result of an earlier call, was multiplied with itself
\* by matmul_transposed; the result is bound and lives next to c and an
\* initial tensor
C18_Witness ==
    /\ last.op = "matmul_transposed" /\ last.status = "Ok"
    /\ last.self = "c" /\ last.other = "c"
    /\ last.bound # NoSlot /\ last.bound # "c"
    /\ Cardinality(DOMAIN objs) = 3
    /\ objs["c"].buffer \in last.before
    /\ objs["c"].buffer > Len(Slots)

\* a.matmul(&a) returned a tensor that the caller bound
C18_SameOperandTwice ==
    /\ last.op = "matmul" /\ last.status = "Ok"
    /\ last.self = last.other /\ last.bound # NoSlot
    /\ last.self \in DOMAIN objs

\* C19: a tensor returned by an operation holds the context self holds; a
\* context's reference count is the number of its holders (the caller's Arc
\* and the live tensors built against it), it is released exactly when that
\* number is zero, so never while a tensor references it, and its value is
\* the one it was constructed with.
C19_ContextSharedAndImmutable ==
    /\ (last.op \in {"add", "multiply", "scalar_multiply", "matmul"}
            /\ last.bound # NoSlot /\ last.self \in DOMAIN objs) =>
           objs[last.bound].ctx = objs[last.self].ctx
    /\ \A c \in DOMAIN ctxs :
           /\ ctxs[c].strong = (IF ctxs[c].held THEN 1 ELSE 0)
                                 + Cardinality({s \in DOMAIN objs : objs[s].ctx = c})
           /\ ctxs[c].released <=> (ctxs[c].strong = 0)
           /\ ctxs[c].value = ContextNew(backend)
    /\ \A s \in DOMAIN objs : ~ctxs[objs[s].ctx].released

\* C19 witness: the caller has dropped its Arc and the tensor a; the result
\* of b.add(&b), the one tensor left on its context, keeps the context alive
C19_Witness ==
    /\ DOMAIN objs = {"b", "c"}
    /\ objs["b"].ctx = "ctx2" /\ objs["c"].ctx = "ctx2"
    /\ ~ctxs["ctx2"].held /\ ctxs["ctx2"].strong = 2 /\ ~ctxs["ctx2"].released
    /\ ctxs["ctx1"].held /\ ctxs["ctx1"].strong = 1

\* C20: with two threads running add, multiply, scalar_multiply, matmul and
\* data on tensors of one context, their steps interleaved in every way and
\* no lock taken, an operation that has returned has the status, shape and
\* data it has when run alone, and no thread writes a buffer that another
\* thread reads or writes, or that a tensor owns.
C20_ThreadsDoNotInterfere ==
    \A t \in DOMAIN threads :
        /\ threads[t].pc = "done" =>
               /\ threads[t].status = threads[t].alone.status
               /\ threads[t].alone =
                      TensorCall(threads[t].op, threads[t].self,
                                 threads[t].other, threads[t].scalar)
               /\ threads[t].status = "Ok" =>
                      heap.bufs[threads[t].out] = threads[t].alone.tensor.buffer
        /\ \A u \in DOMAIN threads \ {t} :
               WritesOf(t) \cap (ReadsOf(u) \cup WritesOf(u)) = {}
        /\ \A s \in DOMAIN objs : objs[s].buffer \notin WritesOf(t)

\* C20 witness: both threads are part-way through filling their outputs,
\* both reading the buffer of a
C20_Witness ==
    /\ DOMAIN threads = Threads
    /\ \A t \in Threads :
           /\ threads[t].pc = "write" /\ threads[t].idx = 1
           /\ threads[t].self = "a"
           /\ Len(heap.bufs[threads[t].out]) > 1
    /\ threads["t1"].op = "matmul" /\ threads["t2"].op = "add"


\* thread t returns from synchronize in this step
SynchronizeReturns(t) ==
    /\ gpu.frames[t].pc = 0 /\ gpu'.frames[t].pc = 0
    /\ gpu'.frames[t].calls = gpu.frames[t].calls + 1

\* the command buffers committed to the queue of the context and not finished
Pending == {i \in DOMAIN gpu.cmds : gpu.cmds[i].state = "committed"}

\* C21: when synchronize(ctx) returns, every operation issued on the context
\* before has completed (no command buffer committed to its queue is still
\* unfinished); the call returns Ok and changes nothing but the caller's own
\* record of the call.
C21_SynchronizeAfterCompletion ==
    [][ \A t \in DOMAIN gpu.frames :
          SynchronizeReturns(t) =>
             /\ Pending = {}
             /\ gpu'.frames[t].status = "Ok"
             /\ gpu' = [gpu EXCEPT !.frames[t].status = "Ok",
                                   !.frames[t].calls = @ + 1] ]_vars


\* C22: matmul_transposed(other, transpose_a, transpose_b), and the product
\* of two transpose wrappers, check the effective dims: self's (rows, cols)
\* swapped under transpose_a, other's under transpose_b.  For operands of
\* rank up to 3 the call succeeds exactly when both ranks are at least 2, the
\* effective inner dims agree and the operands are both plain or both batched
\* with one batch count; it then returns the shape [m, n] (with the batch
\* count in front when batched) and that many elements, and otherwise it
\* returns ShapeMismatch.  A stored [3,2] under transpose_a against [3,2]
\* gives [2,2].
C22_TransposedChecksEffectiveDims ==
    /\ ( /\ last.op \in {"matmul_transposed", "mul"}
         /\ Rank(SelfT) <= 3 /\ Rank(OtherT) <= 3 ) =>
           LET ranks == Rank(SelfT) >= 2 /\ Rank(OtherT) >= 2
               m  == IF last.transpose_a THEN ColsOf(SelfT) ELSE RowsOf(SelfT)
               k1 == IF last.transpose_a THEN RowsOf(SelfT) ELSE ColsOf(SelfT)
               k2 == IF last.transpose_b THEN ColsOf(OtherT) ELSE RowsOf(OtherT)
               n  == IF last.transpose_b THEN RowsOf(OtherT) ELSE ColsOf(OtherT)
               batches == \/ IsPlain(SelfT) /\ IsPlain(OtherT)
                          \/ /\ IsBatched(SelfT) /\ IsBatched(OtherT)
                             /\ SelfT.shape[1] = OtherT.shape[1]
           IN  IF ranks /\ k1 = k2 /\ batches
               THEN /\ last.status = "Ok"
                    /\ last.result.shape =
                           IF IsPlain(SelfT) THEN <<m, n>>
                           ELSE <<SelfT.shape[1], m, n>>
                    /\ Len(last.result.buffer) = ShapeSize(last.result.shape)
               ELSE last.status = "ShapeMismatch" /\ last.result = NoTensor
    /\ \A B \in Backends :
           LET r == TensorMatmulTransposed(B,
                        [shape |-> <<3, 2>>, buffer |-> <<1, 4, 2, 5, 3, 6>>],
                        [shape |-> <<3, 2>>, buffer |-> <<1, 2, 3, 4, 5, 6>>],
                        TRUE, FALSE)
           IN  r.status = "Ok" /\ r.tensor.shape = <<2, 2>>

\* C22 witness: a stored [2,1] taken transposed against [2,1] succeeded with
\* shape [1,1], where the stored inner dims 1 and 2 differ
C22_Witness ==
    /\ last.op = "matmul_transposed" /\ last.status = "Ok"
    /\ last.transpose_a /\ ~last.transpose_b
    /\ SelfT.shape = <<2, 1>> /\ OtherT.shape = <<2, 1>>
    /\ last.result.shape = <<1, 1>>


\* the last call of the program made on backend B instead, on the same inputs
LastOn(B) ==
    CASE last.op = "new"      -> TensorNew(B, last.shape, last.data)
      [] last.op = "zeros"    -> TensorZeros(B, last.shape)
      [] last.op = "add"      -> TensorAdd(B, SelfT, OtherT)
      [] last.op = "multiply" -> TensorMultiply(B, SelfT, OtherT)
      [] last.op = "scalar_multiply" -> TensorScalarMultiply(B, SelfT, last.scalar)
      [] last.op = "neg"      -> TensorNeg(B, SelfT)
      [] last.op = "matmul"   -> TensorMatmul(B, SelfT, OtherT)
      [] last.op = "data"     -> TensorOk(<<>>, TensorData(B, SelfT))

\* C23: whatever backend the program runs on, each call of a run (new, zeros,
\* add, multiply, scalar_multiply, neg, matmul, data) has the outcome the same
\* call has on the CPU backend and on the Metal backend: the same status, the
\* same result shape and the same result data (for data(), the same values
\* read), so the tensors the program holds are the same on both.
C23_BackendsAgree ==
    last.op # "none" =>
        \A B \in Backends :
            /\ LastOn(B).status = last.status
            /\ IF last.op = "data"
               THEN LastOn(B).tensor.buffer = last.read
               ELSE LastOn(B).tensor = last.result
            /\ \A s \in DOMAIN tensors :
                   TensorData(B, tensors[s]) = TensorData(backend, tensors[s])

\* C23 witness: a batched matmul on the Metal backend returned the data the
\* CPU backend computes, after an element-wise product that differs from
\* the sum
C23_Witness ==
    /\ backend = "Metal" /\ last.op = "matmul" /\ last.status = "Ok"
    /\ Rank(SelfT) = 3 /\ SelfT.shape[1] = 2
    /\ last.result = TensorMatmul("CPU", SelfT, OtherT).tensor
    /\ \E x \in 1..Len(last.result.buffer) : last.result.buffer[x] > 1


\* B::new() could not initialise the backend: no device, a library that does
\* not compile, or a kernel whose pipeline cannot be created
CannotInitialise ==
    ~gpu.env.device \/ ~gpu.env.compiles \/ gpu.env.failing # {}

\* C24 (as claimed): context creation fails with InitError when no device is
\* found and when the kernel library fails to compile; whenever the backend
\* cannot initialise no context is returned; a context that is returned holds
\* a pipeline for each of the nine named kernels.
C24_ContextCreationFailsWithInitError ==
    gpu.ctx.status # "None" =>
        /\ (~gpu.env.device \/ ~gpu.env.compiles) => gpu.ctx.status = "InitError"
        /\ CannotInitialise => gpu.ctx.status # "Ok" /\ gpu.ctx.pipelines = <<>>
        /\ gpu.ctx.status = "Ok" =>
               {p.function : p \in {gpu.ctx.pipelines[i] :
                                       i \in DOMAIN gpu.ctx.pipelines}}
                   = {"element_wise_add", "element_wise_multiply", "scalar_multiply",
                      "matmul", "matmul_tiled", "matmul_batched",
                      "matmul_batched_tiled", "matmul_transposed",
                      "matmul_transposed_tiled"}

\* C24, with the error kinds the source returns: InitError without a device,
\* MetalError for a library that does not compile or a pipeline that cannot
\* be created; the rest as claimed
C24_InitErrorWithoutDeviceOnly ==
    gpu.ctx.status # "None" =>
        /\ gpu.ctx.status =
               IF ~gpu.env.device THEN "InitError"
               ELSE IF CannotInitialise THEN "MetalError" ELSE "Ok"
        /\ CannotInitialise => gpu.ctx.pipelines = <<>>
        /\ gpu.ctx.status = "Ok" =>
               /\ Len(gpu.ctx.pipelines) = 9
               /\ \A i \in 1..9 : \A j \in 1..9 :
                      i # j => /\ gpu.ctx.pipelines[i].function
                                      # gpu.ctx.pipelines[j].function
                               /\ gpu.ctx.pipelines[i].field
                                      # gpu.ctx.pipelines[j].field


\* thread t is in a backend call and has made the call named step
HasDone(t, step) ==
    \E i \in 1..Len(StepsDone(t)) : StepsDone(t)[i] = step

\* the pipelines of a matmul family: <<naive, tiled>>
FamilyPipelines(op) ==
    CASE op = "matmul" -> <<"matmul_pipeline", "matmul_tiled_pipeline">>
      [] op = "matmul_batched" ->
             <<"matmul_batched_pipeline", "matmul_batched_tiled_pipeline">>
      [] op = "matmul_transposed" ->
             <<"matmul_transposed_pipeline", "matmul_transposed_tiled_pipeline">>

\* a usize is at least 16
AtLeast16(x) == x.hi > 0 \/ x.lo >= 16

\* C25: in matmul, matmul_batched and matmul_transposed the pipeline bound to
\* the encoder is the tiled one of the family when m >= 16, n >= 16 and
\* k >= 16, and the naive one of the family when any of them is below 16;
\* m = n = 16 with k = 15 is naive, m = n = k = 16 is tiled, and the batch
\* count does not change the choice.
C25_TiledIffAllAtLeast16 ==
    /\ \A t \in DOMAIN gpu.frames :
           LET f == gpu.frames[t] IN
           ( /\ f.op \in {"matmul", "matmul_batched", "matmul_transposed"}
             /\ HasDone(t, "set_compute_pipeline_state") ) =>
               gpu.cmds[f.cb].pipeline =
                   IF AtLeast16(f.args.m) /\ AtLeast16(f.args.n) /\ AtLeast16(f.args.k)
                   THEN FamilyPipelines(f.op)[2]
                   ELSE FamilyPipelines(f.op)[1]
    /\ \A op \in {"matmul", "matmul_batched", "matmul_transposed"} :
           \A batch \in GpuBatches :
               /\ ChosenPipeline(op, GpuArgs(U(1), batch, U(16), U(16), U(15),
                                             FALSE, FALSE))
                      = FamilyPipelines(op)[1]
               /\ ChosenPipeline(op, GpuArgs(U(1), batch, U(16), U(16), U(16),
                                             FALSE, FALSE))
                      = FamilyPipelines(op)[2]

\* C25 witness: a batched matmul of two batches with m = n = k = 16 has the
\* tiled batched pipeline bound and is dispatched
C25_Witness ==
    \E t \in DOMAIN gpu.frames :
        LET f == gpu.frames[t] IN
        /\ f.op = "matmul_batched" /\ HasDone(t, "dispatch_threads")
        /\ f.args.m = U(16) /\ f.args.n = U(16) /\ f.args.k = U(16)
        /\ f.args.batch_size = U(2)
        /\ gpu.cmds[f.cb].pipeline = "matmul_batched_tiled_pipeline"

\* C25, second case: a transposed matmul with m = n = 16 and k = 15 has the
\* naive transposed pipeline bound
C25_NaiveReached ==
    \E t \in DOMAIN gpu.frames :
        LET f == gpu.frames[t] IN
        /\ f.op = "matmul_transposed" /\ HasDone(t, "set_compute_pipeline_state")
        /\ f.args.m = U(16) /\ f.args.n = U(16) /\ f.args.k = U(15)
        /\ gpu.cmds[f.cb].pipeline = "matmul_transposed_pipeline"


\* the stage of the dispatch protocol a device call belongs to: 1 allocate
\* the output, 2 open the encoding scope and bind the pipeline, 3 bind
\* buffers and uniforms, 4 dispatch and end encoding, 5 commit, 6 wait, return
Stage(step) ==
    CASE step \in {"allocate_buffer", "new_buffer"} -> 1
      [] step \in {"new_command_buffer", "new_compute_command_encoder",
                   "set_compute_pipeline_state"} -> 2
      [] step \in {"set_buffer", "set_bytes"} -> 3
      [] step \in {"dispatch_threads", "end_encoding"} -> 4
      [] step = "commit" -> 5
      [] step \in {"wait_until_completed", "return"} -> 6

\* the calls of a sequence are in protocol order
InStageOrder(steps) ==
    \A i \in 1..Len(steps) : \A j \in 1..Len(steps) :
        i < j => Stage(steps[i]) <= Stage(steps[j])

\* C26 (as claimed): in every Metal operation the device calls made so far
\* are in protocol order: the output buffer is allocated first, then the
\* encoding scope is opened and the pipeline bound, then buffers and uniforms
\* are bound, then the grid is dispatched and encoding ended, then the
\* command buffer is committed.
C26_DispatchProtocolOrder ==
    \A t \in DOMAIN gpu.frames :
        /\ InStageOrder(StepsDone(t))
        /\ StepsDone(t) # <<>> => Stage(StepsDone(t)[1]) = 1

\* C26 but for the allocation of matmul_transposed: the five other operations
\* follow the protocol, and matmul_transposed follows it once its allocation
\* is left out, the output being allocated before it is bound
C26_OrderButTransposedAllocation ==
    \A t \in DOMAIN gpu.frames :
        LET done == StepsDone(t) IN
        IF gpu.frames[t].op = "matmul_transposed"
        THEN /\ InStageOrder(SelectSeq(done, LAMBDA s : s # "new_buffer"))
             /\ \A i \in 1..Len(done) : \A j \in 1..Len(done) :
                    (done[i] = "set_buffer" /\ done[j] = "new_buffer") => j < i
        ELSE /\ InStageOrder(done)
             /\ done # <<>> => Stage(done[1]) = 1


\* the command buffers of thread t that are still alive (not yet dropped)
AliveOf(t) ==
    {i \in DOMAIN gpu.cmds :
        gpu.cmds[i].owner = t /\ gpu.cmds[i].state # "released"}

\* C27: a Metal operation has committed its command buffer, and the device
\* has completed it, by the time the operation is past its wait and returns
\* the result; no thread holds a result buffer written by a command buffer
\* that is unfinished; a thread has at most one command buffer alive, hence
\* at most one in flight; and when a thread has issued two operations the
\* command buffer of the earlier one was completed and dropped before the
\* later one was created.
C27_BlocksUntilCompleted ==
    \A t \in DOMAIN gpu.frames :
        LET f == gpu.frames[t] IN
        /\ HasDone(t, "wait_until_completed") =>
               /\ HasDone(t, "commit")
               /\ gpu.cmds[f.cb].state = "completed"
               /\ f.cb \notin Pending
        /\ \A id \in f.held :
               /\ gpu.bufs[id].cmd # 0
               /\ gpu.cmds[gpu.bufs[id].cmd].state = "released"
               /\ \A q \in 1..Len(gpu.queue) : gpu.queue[q] # gpu.bufs[id].cmd
        /\ Cardinality(AliveOf(t)) <= 1
        /\ Cardinality(AliveOf(t) \cap Pending) <= 1
        /\ \A i \in DOMAIN gpu.cmds : \A j \in DOMAIN gpu.cmds :
               (gpu.cmds[i].owner = t /\ gpu.cmds[j].owner = t /\ i < j) =>
                   /\ gpu.cmds[i].state = "released"
                   /\ \A q \in 1..Len(gpu.queue) : gpu.queue[q] # i

\* C27 witness: the first thread holds the result of its first operation and
\* waits on the command buffer of its second, which is in the queue behind
\* the one the second thread committed
C27_Witness ==
    /\ DOMAIN gpu.frames = GpuThreads
    /\ gpu.frames["t1"].calls = 1 /\ gpu.frames["t1"].held # {}
    /\ StepOf("t1") = "wait_until_completed"
    /\ StepOf("t2") = "wait_until_completed"
    /\ Len(gpu.queue) = 2
    /\ gpu.queue[1] = gpu.frames["t2"].cb
    /\ gpu.queue[2] = gpu.frames["t1"].cb


\* the grid an operation is claimed to launch
ClaimedGrid(op, args) ==
    CASE op \in ElementWiseOps -> <<args.size, U(1), U(1)>>
      [] op \in {"matmul", "matmul_transposed"} -> <<args.n, args.m, U(1)>>
      [] op = "matmul_batched" -> <<args.n, args.m, args.batch_size>>

\* the number of work-items of a grid, and whether it is beyond 64 bits
WorkItems(grid) ==
    LET xy  == UsizeMul(grid[1], grid[2])
        xyz == UsizeMul(xy.value, grid[3])
    IN  [value |-> xyz.value, overflow |-> xy.overflow \/ xyz.overflow]

\* a buffer of this byte length holds exactly count f32 elements
HoldsElements(length, count) ==
    /\ ~count.overflow
    /\ ~UsizeMul(count.value, U(4)).overflow
    /\ UsizeMul(count.value, U(4)).value = length

\* the grid and thread-group of every dispatched call are as claimed
GridShapesAsClaimed ==
    \A t \in DOMAIN gpu.frames :
        LET f == gpu.frames[t] IN
        HasDone(t, "dispatch_threads") =>
            /\ gpu.cmds[f.cb].grid = ClaimedGrid(f.op, f.args)
            /\ f.op \notin ElementWiseOps =>
                   gpu.cmds[f.cb].threadgroup = <<16, 16, 1>>

\* C28 (as claimed): an element-wise operation dispatches the grid
\* [size,1,1], matmul and matmul_transposed [n,m,1], matmul_batched
\* [n,m,batch]; the matmul family uses thread-group [16,16,1]; and the
\* number of work-items of the grid is the number of elements of the output
\* buffer allocated for the call.
C28_GridSizedToOutput ==
    /\ GridShapesAsClaimed
    /\ \A t \in DOMAIN gpu.frames :
           LET f == gpu.frames[t] IN
           HasDone(t, "dispatch_threads") =>
               HoldsElements(gpu.bufs[f.out].length, WorkItems(gpu.cmds[f.cb].grid))

\* C28 where m * n (batch * m * n) fits 64 bits: there the claim holds
C28_GridSizedToOutputUnlessWrapped ==
    /\ GridShapesAsClaimed
    /\ \A t \in DOMAIN gpu.frames :
           LET f == gpu.frames[t] IN
           (HasDone(t, "dispatch_threads") /\ ~OutputBytes(f.op, f.args).overflow) =>
               HoldsElements(gpu.bufs[f.out].length, WorkItems(gpu.cmds[f.cb].grid))


\* the operands of the last call are batched differently: one batched and
\* one plain, or two batch counts that differ
BatchingDiffers ==
    \/ Rank(SelfT) # Rank(OtherT)
    \/ Rank(SelfT) = 3 /\ Rank(OtherT) = 3 /\ SelfT.shape[1] # OtherT.shape[1]

\* C29: Tensor::matmul checks the ranks, then the inner dimensions, then the
\* batching: an operand of rank below 2 gives the rank error; operands (of
\* rank 2 or 3) whose inner dimensions differ give the inner-dimension
\* ShapeMismatch, however they are batched; and the batch error is returned
\* only when the inner dimensions agree and the batching differs.
C29_InnerErrorBeforeBatchError ==
    last.op = "matmul" =>
        /\ (Rank(SelfT) < 2 \/ Rank(OtherT) < 2) =>
               last.status = "ShapeMismatch" /\ last.msg = "matmul_rank"
        /\ ( /\ Rank(SelfT) \in {2, 3} /\ Rank(OtherT) \in {2, 3}
             /\ ColsOf(SelfT) # RowsOf(OtherT) ) =>
               last.status = "ShapeMismatch" /\ last.msg = "matmul_inner"
        /\ last.msg = "matmul_batch" =>
               /\ last.status = "ShapeMismatch"
               /\ Rank(SelfT) \in {2, 3} /\ Rank(OtherT) \in {2, 3}
               /\ ColsOf(SelfT) = RowsOf(OtherT)
               /\ BatchingDiffers

\* C29 witness: two batched operands of different batch counts whose inner
\* dimensions differ as well got the inner-dimension error
C29_Witness ==
    /\ last.op = "matmul" /\ last.msg = "matmul_inner"
    /\ Rank(SelfT) = 3 /\ Rank(OtherT) = 3
    /\ SelfT.shape[1] # OtherT.shape[1]
    /\ ColsOf(SelfT) # RowsOf(OtherT)

\* the batch error was returned for a batched operand against a plain one
C29_BatchErrorReached ==
    /\ last.op = "matmul" /\ last.msg = "matmul_batch"
    /\ Rank(SelfT) = 3 /\ Rank(OtherT) = 2


MatmulFamily == {"matmul", "matmul_batched", "matmul_transposed"}

\* the dimensions a matmul-family call binds as u32 uniforms, in slot order
UniformDims(op, args) ==
    IF op = "matmul_batched" THEN <<args.m, args.n, args.k, args.batch_size>>
    ELSE <<args.m, args.n, args.k>>

\* the uniforms bound by thread t's call are the dimensions passed to it
UniformsAreDims(t) ==
    LET f    == gpu.frames[t]
        dims == UniformDims(f.op, f.args)
    IN  \A i \in 1..Len(dims) : U(gpu.cmds[f.cb].bytes[i][2]) = dims[i]

\* the output allocated by thread t's call holds m * n (batch * m * n)
\* elements, the product taken without wrapping
OutputIsProduct(t) ==
    LET f == gpu.frames[t] IN
    /\ ~OutputBytes(f.op, f.args).overflow
    /\ gpu.bufs[f.out].length = OutputBytes(f.op, f.args).value

\* C30 (as claimed): in every matmul, matmul_batched and matmul_transposed
\* call on the GPU the u32 uniforms bound for m, n, k (and batch) equal the
\* dimensions that size the output buffer and the grid, the output element
\* count does not wrap, and no call stops on the size arithmetic.
C30_UniformsEqualDimensions ==
    \A t \in DOMAIN gpu.frames :
        LET f == gpu.frames[t] IN
        /\ f.status # "Panic"
        /\ f.op \in MatmulFamily =>
            /\ HasDone(t, "set_bytes") => UniformsAreDims(t)
            /\ (HasDone(t, "allocate_buffer") \/ HasDone(t, "new_buffer")) =>
                   OutputIsProduct(t)
            /\ HasDone(t, "dispatch_threads") =>
                   gpu.cmds[f.cb].grid = ClaimedGrid(f.op, f.args)

\* C30 for dimensions below 2^32: there the uniforms are the dimensions and
\* the output size is the product
C30_UniformsEqualDimensionsBelowTwoPow32 ==
    \A t \in DOMAIN gpu.frames :
        LET f == gpu.frames[t] IN
        ( /\ f.op \in MatmulFamily
          /\ \A i \in 1..Len(UniformDims(f.op, f.args)) :
                 UniformDims(f.op, f.args)[i].hi = 0 ) =>
            /\ HasDone(t, "set_bytes") => UniformsAreDims(t)
            /\ (HasDone(t, "allocate_buffer") \/ HasDone(t, "new_buffer")) =>
                   OutputIsProduct(t)

=============================================================================
